---- MODULE Spec2Model ----
(***************************************************************************)
(* IPv4 subnet calculator (main.go): parseSubnetMask, isValidSubnetMask    *)
(* and calculateSubnet, modelled as operators over strings, and the calls  *)
(* made to them as a state machine; calculateSubnet statement by statement *)
(* as run by concurrent goroutines; the request handler; main; the + 1 and  *)
(* - 1 loops on a buffer of their own; and one invocation of               *)
(* calculateSubnet loop iteration by loop iteration.                       *)
(*                                                                         *)
(* A Go string is a sequence of one-character strings, a net.IP or a       *)
(* net.IPMask a sequence of octets (0..255), a nil pointer or nil error    *)
(* the empty sequence and a non-nil one a one-element sequence.            *)
(***************************************************************************)
EXTENDS Integers, Sequences, FiniteSets, TLC

VARIABLES
    pc,        \* "idle", "returned" once a call has returned, "looping" while a loop is run
    fn,        \* the function called: "calculateSubnet", "parseSubnetMask", "isValidSubnetMask"
    ipStr,     \* calculateSubnet's ipStr argument
    maskStr,   \* the mask string argument of calculateSubnet / parseSubnetMask
    maskArg,   \* the net.IPMask argument of isValidSubnetMask
    ret,       \* what the call returned
    go,        \* per goroutine running calculateSubnet: where it is, and its locals
    heap,      \* the buffers and result structs the goroutines have made
    hist,      \* an invocation of calculateSubnet remembered with its outcome
    http,      \* the request handler is serving, and its response
    proc,      \* the server process: its environment and how far main has run
    loop,      \* the + 1 or - 1 loop run on a four-byte buffer: what it was given and left
    run        \* one invocation of calculateSubnet, iteration by iteration: its locals

callVars == <<pc, fn, ipStr, maskStr, maskArg, ret>>

goVars == <<go, heap, hist>>

serverVars == <<http, proc>>

stepVars == <<loop, run>>

vars == <<pc, fn, ipStr, maskStr, maskArg, ret, go, heap, hist, http, proc, loop, run>>

----------------------------------------------------------------------------
(* Bounds of the checked input space.                                      *)

\* octets an address is built from: the first NumIPOctets of IPOctetList
NumIPOctets == 3
\* octets a mask passed to isValidSubnetMask / written in dotted decimal is
\* built from: the first NumMaskOctets of MaskOctetList
NumMaskOctets == 11
\* longest text after the "/" of a CIDR mask string
MaxCidrLen == 3
\* longest value of GO_SUBNET_CALCULATOR_PORT written over PortAlphabet
MaxPortLen == 3
\* goroutines that call calculateSubnet at the same time
NumProcs == 2

----------------------------------------------------------------------------
(* Integer widths and bit operations.                                      *)

\* width of Go's int on the documented build targets (GOARCH=amd64)
IntSize == 64

RECURSIVE Pow2(_)
Pow2(n) == IF n = 0 THEN 1 ELSE 2 * Pow2(n - 1)

\* bit i of the byte or limb v
Bit(v, i) == (v \div Pow2(i)) % 2

\* Machine integers wider than 31 bits are words: big-endian sequences of
\* 16-bit limbs, two limbs for a uint32 and IntSize/16 for an int.
Limb == Pow2(16)

RECURSIVE WordZero(_)
WordZero(L) == IF L = 0 THEN <<>> ELSE Append(WordZero(L - 1), 0)

\* the word of L limbs holding the small non-negative value v < Limb
WordOf(L, v) == Append(WordZero(L - 1), v)

\* limbs i..Len(w) of w << (16 * q + b), b < 16
RECURSIVE WordShlFrom(_, _, _, _)
WordShlFrom(w, q, b, i) ==
    IF i > Len(w) THEN <<>>
    ELSE LET cur  == IF i + q <= Len(w) THEN w[i + q] ELSE 0
             next == IF i + q + 1 <= Len(w) THEN w[i + q + 1] ELSE 0
         IN  <<((cur * Pow2(b)) % Limb) + ((next * Pow2(b)) \div Limb)>>
             \o WordShlFrom(w, q, b, i + 1)

\* w << n for an unsigned shift count n: bits shifted out are lost, and a
\* count of the width or more gives 0
WordShl(w, n) ==
    IF n >= 16 * Len(w) THEN WordZero(Len(w))
    ELSE WordShlFrom(w, n \div 16, n % 16, 1)

\* w - v for a small v < Limb, wrapping around at the width
RECURSIVE WordSubAt(_, _, _)
WordSubAt(w, i, v) ==
    IF i = 0 \/ v = 0 THEN w
    ELSE IF w[i] >= v THEN [w EXCEPT ![i] = w[i] - v]
    ELSE WordSubAt([w EXCEPT ![i] = w[i] + Limb - v], i - 1, 1)

WordSub(w, v) == WordSubAt(w, Len(w), v)

\* w < 0 for a signed word
WordNegative(w) == w[1] >= Limb \div 2

\* w \div 10 and w % 10 by long division over the limbs
RECURSIVE WordDivMod10(_, _, _, _)
WordDivMod10(w, i, rem, quot) ==
    IF i > Len(w) THEN [q |-> quot, r |-> rem]
    ELSE LET cur == rem * Limb + w[i]
         IN  WordDivMod10(w, i + 1, cur % 10, Append(quot, cur \div 10))

RECURSIVE BitAnd(_, _)
BitAnd(a, b) ==
    IF a = 0 \/ b = 0 THEN 0
    ELSE (a % 2) * (b % 2) + 2 * BitAnd(a \div 2, b \div 2)

RECURSIVE BitOr(_, _)
BitOr(a, b) ==
    IF a = 0 THEN b
    ELSE IF b = 0 THEN a
    ELSE (IF a % 2 = 1 \/ b % 2 = 1 THEN 1 ELSE 0) + 2 * BitOr(a \div 2, b \div 2)

\* ^x on a byte
ByteNot(x) == 255 - x

----------------------------------------------------------------------------
(* Strings and the library calls main.go makes on them.                    *)

Digits == <<"0", "1", "2", "3", "4", "5", "6", "7", "8", "9">>

IsDigit(c) == \E i \in 1..10 : Digits[i] = c

DigitVal(c) == (CHOOSE i \in 1..10 : Digits[i] = c) - 1

WhiteSpace == {" ", "\t", "\n", "\r"}

\* s[i:] with a 0-based Go index
Drop(s, i) == SubSeq(s, i + 1, Len(s))

RECURSIVE TrimLeft(_)
TrimLeft(s) ==
    IF Len(s) > 0 /\ Head(s) \in WhiteSpace THEN TrimLeft(Tail(s)) ELSE s

RECURSIVE TrimRight(_)
TrimRight(s) ==
    IF Len(s) > 0 /\ s[Len(s)] \in WhiteSpace
    THEN TrimRight(SubSeq(s, 1, Len(s) - 1))
    ELSE s

\* TrimSpace leaving the white space at the end
TrimSpaceAtStartOnly(s) == TrimLeft(s)

\* strings.TrimSpace
TrimSpace(s) == TrimRight(TrimLeft(s))

\* strings.HasPrefix(s, "/")
HasPrefix(s, c) == Len(s) >= 1 /\ s[1] = c

\* fmt.Sprintf("%d", w) for a non-negative int held as a word
RECURSIVE WordDecimal(_)
WordDecimal(w) ==
    LET d == WordDivMod10(w, 1, 0, <<>>)
    IN  IF d.q = WordZero(Len(w)) THEN <<Digits[d.r + 1]>>
        ELSE Append(WordDecimal(d.q), Digits[d.r + 1])

SprintfD(w) == WordDecimal(w)

\* the digits of the largest int, and of the magnitude of the smallest
MaxIntDigits ==
    IF IntSize = 64
    THEN <<"9","2","2","3","3","7","2","0","3","6","8","5","4","7","7","5","8","0","7">>
    ELSE <<"2","1","4","7","4","8","3","6","4","7">>

MinIntDigits ==
    IF IntSize = 64
    THEN <<"9","2","2","3","3","7","2","0","3","6","8","5","4","7","7","5","8","0","8">>
    ELSE <<"2","1","4","7","4","8","3","6","4","8">>

RECURSIVE StripZeros(_)
StripZeros(s) == IF Len(s) > 1 /\ Head(s) = "0" THEN StripZeros(Tail(s)) ELSE s

\* a > b for two digit strings of the same length
RECURSIVE DigitsGreater(_, _)
DigitsGreater(a, b) ==
    IF Len(a) = 0 THEN FALSE
    ELSE IF DigitVal(Head(a)) # DigitVal(Head(b))
         THEN DigitVal(Head(a)) > DigitVal(Head(b))
         ELSE DigitsGreater(Tail(a), Tail(b))

RECURSIVE AtoiDigits(_, _)
AtoiDigits(s, acc) ==
    IF Len(s) = 0 THEN acc
    ELSE AtoiDigits(Tail(s), acc * 10 + DigitVal(Head(s)))

\* what stands for a value of ten digits or more; the callers compare the
\* value with 0 and 32 only
AtoiHuge == 1000 * 1000 * 1000

\* strconv.Atoi: an optional sign, then one or more decimal digits, the value
\* within the range of int; err on a syntax or range error.
Atoi(s) ==
    LET signed == Len(s) > 0 /\ s[1] \in {"+", "-"}
        body   == IF signed THEN Tail(s) ELSE s
        neg    == signed /\ s[1] = "-"
    IN  IF Len(body) = 0 \/ \E i \in 1..Len(body) : ~IsDigit(body[i])
        THEN [err |-> TRUE, n |-> 0]
        ELSE LET sig   == StripZeros(body)
                 limit == IF neg THEN MinIntDigits ELSE MaxIntDigits
                 v     == IF Len(sig) > 9 THEN AtoiHuge ELSE AtoiDigits(sig, 0)
             IN  IF \/ Len(sig) > Len(limit)
                    \/ Len(sig) = Len(limit) /\ DigitsGreater(sig, limit)
                 THEN [err |-> TRUE, n |-> 0]
                 ELSE [err |-> FALSE, n |-> IF neg THEN 0 - v ELSE v]

\* net.CIDRMask(ones, 32): byte by byte, 0xff while at least 8 ones remain,
\* then ^byte(0xff >> n), then zeros
RECURSIVE CIDRMaskBytes(_, _)
CIDRMaskBytes(n, left) ==
    IF left = 0 THEN <<>>
    ELSE IF n >= 8 THEN <<255>> \o CIDRMaskBytes(n - 8, left - 1)
    ELSE <<ByteNot(255 \div Pow2(n))>> \o CIDRMaskBytes(0, left - 1)

\* CIDRMask keeping whole bytes only: the ones left over after the last
\* full byte are dropped
CIDRMaskWholeBytes(ones) ==
    IF ones < 0 \/ ones > 32 THEN <<>> ELSE CIDRMaskBytes(8 * (ones \div 8), 4)

CIDRMask(ones) ==
    IF ones < 0 \/ ones > 32 THEN <<>> ELSE CIDRMaskBytes(ones, 4)

\* the four octets of an IPv4 literal (netip's parseIPv4Fields): decimal
\* fields separated by dots, no leading zero, each at most 255, exactly four.
\* <<>> when the text is rejected.
RECURSIVE parseIPv4Fields(_, _, _, _, _, _)
parseIPv4Fields(s, i, val, pos, digLen, fields) ==
    IF i > Len(s)
    THEN IF pos < 3 THEN <<>> ELSE Append(fields, val)
    ELSE IF IsDigit(s[i])
         THEN IF digLen = 1 /\ val = 0 THEN <<>>
              ELSE LET v == val * 10 + DigitVal(s[i])
                   IN  IF v > 255 THEN <<>>
                       ELSE parseIPv4Fields(s, i + 1, v, pos, digLen + 1, fields)
         ELSE IF s[i] = "."
              THEN IF i = 1 \/ i = Len(s) \/ s[i - 1] = "." THEN <<>>
                   ELSE IF pos = 3 THEN <<>>
                   ELSE parseIPv4Fields(s, i + 1, 0, pos + 1, 0, Append(fields, val))
              ELSE <<>>

parseIPv4(s) == parseIPv4Fields(s, 1, 0, 0, 0, <<>>)

\* the 16-byte form net.ParseIP gives an IPv4 address
V4InV6Prefix == <<0, 0, 0, 0, 0, 0, 0, 0, 0, 0, 255, 255>>

HexDigits == <<"0", "1", "2", "3", "4", "5", "6", "7", "8", "9",
               "a", "b", "c", "d", "e", "f">>

UpperHex == <<"A", "B", "C", "D", "E", "F">>

IsHex(c) == (\E i \in 1..16 : HexDigits[i] = c) \/ (\E i \in 1..6 : UpperHex[i] = c)

HexVal(c) ==
    IF \E i \in 1..16 : HexDigits[i] = c
    THEN (CHOOSE i \in 1..16 : HexDigits[i] = c) - 1
    ELSE (CHOOSE i \in 1..6 : UpperHex[i] = c) + 9

\* the number of hex digits s starts with
RECURSIVE HexRun(_)
HexRun(s) == IF Len(s) > 0 /\ IsHex(Head(s)) THEN 1 + HexRun(Tail(s)) ELSE 0

RECURSIVE HexAcc(_, _, _)
HexAcc(s, n, acc) ==
    IF n = 0 THEN acc ELSE HexAcc(Tail(s), n - 1, acc * 16 + HexVal(Head(s)))

\* the end of netip's parseIPv6: the whole string used, and the "::" expanded
\* to the zero bytes that are missing
parseIPv6End(s, ip, ellipsis) ==
    LET i == Len(ip)
    IN  IF Len(s) # 0 THEN <<>>
        ELSE IF i < 16
             THEN IF ellipsis < 0 THEN <<>>
                  ELSE SubSeq(ip, 1, ellipsis) \o [j \in 1..(16 - i) |-> 0]
                       \o SubSeq(ip, ellipsis + 1, i)
             ELSE IF ellipsis >= 0 THEN <<>> ELSE ip

\* the loop of netip's parseIPv6: hex groups of at most four digits separated
\* by colons, at most one "::", and an IPv4 literal allowed as the last 4 bytes
RECURSIVE parseIPv6Loop(_, _, _)
parseIPv6Loop(s, ip, ellipsis) ==
    LET i   == Len(ip)
        off == HexRun(s)
    IN  IF i >= 16 THEN parseIPv6End(s, ip, ellipsis)
        ELSE IF off > 4 \/ off = 0 THEN <<>>
        ELSE IF off < Len(s) /\ s[off + 1] = "."
             THEN IF ellipsis < 0 /\ i # 12 THEN <<>>
                  ELSE IF i + 4 > 16 THEN <<>>
                  ELSE LET f == parseIPv4(s)
                       IN  IF f = <<>> THEN <<>>
                           ELSE parseIPv6End(<<>>, ip \o f, ellipsis)
             ELSE LET acc  == HexAcc(s, off, 0)
                      ip2  == ip \o <<acc \div 256, acc % 256>>
                      rest == Drop(s, off)
                  IN  IF Len(rest) = 0 THEN parseIPv6End(rest, ip2, ellipsis)
                      ELSE IF rest[1] # ":" \/ Len(rest) = 1 THEN <<>>
                      ELSE IF rest[2] = ":"
                           THEN IF ellipsis >= 0 THEN <<>>
                                ELSE IF Len(rest) = 2
                                     THEN parseIPv6End(<<>>, ip2, i + 2)
                                     ELSE parseIPv6Loop(Drop(rest, 2), ip2, i + 2)
                           ELSE parseIPv6Loop(Drop(rest, 1), ip2, ellipsis)

\* netip's parseIPv6 as net.ParseIP uses it: an address with a zone ("%") is
\* nil for net.ParseIP whether or not it parses
parseIPv6(s) ==
    IF \E k \in 1..Len(s) : s[k] = "%" THEN <<>>
    ELSE IF Len(s) >= 2 /\ s[1] = ":" /\ s[2] = ":"
         THEN IF Len(s) = 2 THEN [j \in 1..16 |-> 0]
              ELSE parseIPv6Loop(Drop(s, 2), <<>>, 0)
         ELSE parseIPv6Loop(s, <<>>, -1)

\* net.ParseIP: the first of ".", ":" and "%" in the string chooses the parser;
\* nil (<<>>) when the text is no address, else the 16-byte form
RECURSIVE ParseIPFrom(_, _)
ParseIPFrom(s, i) ==
    IF i > Len(s) THEN <<>>
    ELSE IF s[i] = "."
         THEN LET f == parseIPv4(s)
              IN  IF f = <<>> THEN <<>> ELSE V4InV6Prefix \o f
    ELSE IF s[i] = ":" THEN parseIPv6(s)
    ELSE IF s[i] = "%" THEN <<>>
    ELSE ParseIPFrom(s, i + 1)

ParseIP(s) == ParseIPFrom(s, 1)

\* net.IP.To4: the last four bytes of a 16-byte IPv4-in-IPv6 value, a 4-byte
\* value itself, nil otherwise
To4(ip) ==
    IF Len(ip) = 4 THEN ip
    ELSE IF Len(ip) = 16 /\ SubSeq(ip, 1, 12) = V4InV6Prefix THEN SubSeq(ip, 13, 16)
    ELSE <<>>

\* the decimal digits of a byte (netip's appendDecimal)
appendDecimal(x) ==
    (IF x >= 100 THEN <<Digits[(x \div 100) + 1]>> ELSE <<>>)
    \o (IF x >= 10 THEN <<Digits[((x \div 10) % 10) + 1]>> ELSE <<>>)
    \o <<Digits[(x % 10) + 1]>>

\* net.IP.String of a 4-byte address: dotted decimal
IPString(ip) ==
    appendDecimal(ip[1]) \o <<".">> \o appendDecimal(ip[2]) \o <<".">>
    \o appendDecimal(ip[3]) \o <<".">> \o appendDecimal(ip[4])

\* IPMaskWith with the bytes joined by OR in place of AND
IPMaskWithOr(ip, mask) ==
    IF Len(ip) # 4 \/ Len(mask) # 4 THEN <<>>
    ELSE <<BitOr(ip[1], mask[1]), BitOr(ip[2], mask[2]),
           BitOr(ip[3], mask[3]), BitOr(ip[4], mask[4])>>

\* net.IP.Mask for a 4-byte address: the bytes joined by AND with those of a
\* 4-byte mask, or with the last four of a 16-byte mask whose first twelve
\* are all 0xff; nil when the lengths do not agree
\* line 118 without the call of Mask: the address itself is the network
IPUnmasked(ip, mask) == ip

IPMaskWith(ip, mask) ==
    IF Len(ip) = 4 /\ Len(mask) = 16 /\ (\A i \in 1..12 : mask[i] = 255)
    THEN <<BitAnd(ip[1], mask[13]), BitAnd(ip[2], mask[14]),
           BitAnd(ip[3], mask[15]), BitAnd(ip[4], mask[16])>>
    ELSE IF Len(ip) # 4 \/ Len(mask) # 4 THEN <<>>
    ELSE <<BitAnd(ip[1], mask[1]), BitAnd(ip[2], mask[2]),
           BitAnd(ip[3], mask[3]), BitAnd(ip[4], mask[4])>>

\* net.IPMask.Size (simpleMaskLength): the number of leading ones, or 0 when
\* a one follows a zero
RECURSIVE LeadingOnesOfByte(_, _)
LeadingOnesOfByte(v, n) ==
    IF n = 0 \/ v < 128 THEN 0
    ELSE 1 + LeadingOnesOfByte((v * 2) % 256, n - 1)

RECURSIVE simpleMaskLength(_, _, _)
simpleMaskLength(mask, i, n) ==
    IF i > Len(mask) THEN n
    ELSE IF mask[i] = 255 THEN simpleMaskLength(mask, i + 1, n + 8)
    ELSE LET ones == LeadingOnesOfByte(mask[i], 8)
             rest == (mask[i] * Pow2(ones)) % 256
         IN  IF rest # 0 \/ \E j \in (i + 1)..Len(mask) : mask[j] # 0
             THEN -1
             ELSE n + ones

\* MaskSize giving the second value of mask.Size(), the number of bits
MaskSizeBits(mask) == 8 * Len(mask)

MaskSize(mask) ==
    LET n == simpleMaskLength(mask, 1, 0)
    IN  IF n = -1 THEN 0 ELSE n

----------------------------------------------------------------------------
(* main.go                                                                 *)

\* a nil pointer or nil error, and a non-nil one
Nil == <<>>
Ref(x) == <<x>>

\* what a call ends with in place of its return values when an index or a
\* slice bound is out of range (a run-time panic)
Panic == [panic |-> TRUE]

\* Errorf leaving the argument out of the message
ErrorfWithoutArg(format, arg) == [format |-> format, arg |-> <<>>]

\* fmt.Errorf(format, arg): the format and the string put in its %s
Errorf(format, arg) == [format |-> format, arg |-> arg]

\* the text of each format main.go passes to fmt.Errorf, before and after its %s
FormatParts(format) ==
    IF format = "invalid CIDR notation: %s"
    THEN <<<<"i", "n", "v", "a", "l", "i", "d", " ", "C", "I", "D", "R", " ", "n", "o", "t", "a", "t", "i", "o", "n", ":", " ">>,
           <<>>>>
    ELSE IF format = "invalid subnet mask format: %s"
    THEN <<<<"i", "n", "v", "a", "l", "i", "d", " ", "s", "u", "b", "n", "e", "t", " ", "m", "a", "s", "k", " ", "f", "o", "r", "m", "a", "t", ":", " ">>,
           <<>>>>
    ELSE IF format = "not a valid IPv4 mask: %s"
    THEN <<<<"n", "o", "t", " ", "a", " ", "v", "a", "l", "i", "d", " ", "I", "P", "v", "4", " ", "m", "a", "s", "k", ":", " ">>,
           <<>>>>
    ELSE IF format = "invalid subnet mask: %s (must have contiguous 1s followed by 0s)"
    THEN <<<<"i", "n", "v", "a", "l", "i", "d", " ", "s", "u", "b", "n", "e", "t", " ", "m", "a", "s", "k", ":", " ">>,
           <<" ", "(", "m", "u", "s", "t", " ", "h", "a", "v", "e", " ", "c", "o", "n", "t", "i", "g", "u", "o", "u", "s", " ", "1", "s", " ", "f", "o", "l", "l", "o", "w", "e", "d", " ", "b", "y", " ", "0", "s", ")">>>>
    ELSE IF format = "invalid IP address: %s"
    THEN <<<<"i", "n", "v", "a", "l", "i", "d", " ", "I", "P", " ", "a", "d", "d", "r", "e", "s", "s", ":", " ">>,
           <<>>>>
    ELSE \* "not a valid IPv4 address: %s"
         <<<<"n", "o", "t", " ", "a", " ", "v", "a", "l", "i", "d", " ", "I", "P", "v", "4", " ", "a", "d", "d", "r", "e", "s", "s", ":", " ">>,
           <<>>>>

\* err.Error(): the format with the argument in the place of its %s
ErrorText(e) == FormatParts(e.format)[1] \o e.arg \o FormatParts(e.format)[2]

\* the uint32 isValidSubnetMask builds from the four mask bytes
MaskInt(mask) == <<mask[1] * 256 + mask[2], mask[3] * 256 + mask[4]>>

\* maskInt&(1<<uint(i)) != 0 for i in 0..31
MaskBitSet(maskInt, i) ==
    IF i >= 16 THEN Bit(maskInt[1], i - 16) = 1 ELSE Bit(maskInt[2], i) = 1

\* the scan from bit 31 down that counts the leading ones of maskInt
RECURSIVE LeadingOnes(_, _)
LeadingOnes(maskInt, i) ==
    IF i < 0 THEN 0
    ELSE IF MaskBitSet(maskInt, i) THEN 1 + LeadingOnes(maskInt, i - 1)
    ELSE 0

\* isValidSubnetMask with a shift whose count wraps at the width, so that a
\* count of 32 shifts by 0
isValidSubnetMaskShiftWraps(mask) ==
    LET maskInt      == MaskInt(mask)
        leadingOnes  == LeadingOnes(maskInt, 31)
        expectedMask == WordShl(<<65535, 65535>>, (32 - leadingOnes) % 32)
    IN  maskInt = expectedMask

isValidSubnetMask(mask) ==
    LET maskInt      == MaskInt(mask)
        leadingOnes  == LeadingOnes(maskInt, 31)
        expectedMask == WordShl(<<65535, 65535>>, 32 - leadingOnes)
    IN  maskInt = expectedMask

\* parseCidrNotation without the test cidr < 0
parseCidrNotationNoLowerBound(mask) ==
    IF Len(mask) < 1 THEN Panic
    ELSE
    LET cidr == Atoi(Drop(mask, 1))
    IN  IF cidr.err \/ cidr.n > 32
        THEN [mask |-> Nil, err |-> Ref(Errorf("invalid CIDR notation: %s", mask))]
        ELSE [mask |-> CIDRMask(cidr.n), err |-> Nil]

\* the CIDR branch of parseSubnetMask, for a trimmed string that starts with
\* "/"; the slice mask[1:] is out of range for a string of no characters
parseCidrNotation(mask) ==
    IF Len(mask) < 1 THEN Panic
    ELSE
    LET cidr == Atoi(Drop(mask, 1))
    IN  IF cidr.err \/ cidr.n < 0 \/ cidr.n > 32
        THEN [mask |-> Nil, err |-> Ref(Errorf("invalid CIDR notation: %s", mask))]
        ELSE [mask |-> CIDRMask(cidr.n), err |-> Nil]

\* parseDottedDecimal making the mask of the 16 bytes net.ParseIP returned
\* in place of ip.To4()
parseDottedDecimalNoTo4(mask) ==
    LET ip == ParseIP(mask)
    IN  IF ip = Nil
        THEN [mask |-> Nil, err |-> Ref(Errorf("invalid subnet mask format: %s", mask))]
        ELSE IF Len(ip) < 4 THEN Panic
        ELSE IF ~isValidSubnetMask(ip)
        THEN [mask |-> Nil,
              err |-> Ref(Errorf("invalid subnet mask: %s (must have contiguous 1s followed by 0s)", mask))]
        ELSE [mask |-> ip, err |-> Nil]

\* the dotted-decimal branch of parseSubnetMask, for a trimmed string;
\* isValidSubnetMask reads mask[0] to mask[3], out of range for a mask of
\* fewer than four bytes
parseDottedDecimal(mask) ==
    LET ip == ParseIP(mask)
    IN  IF ip = Nil
        THEN [mask |-> Nil, err |-> Ref(Errorf("invalid subnet mask format: %s", mask))]
        ELSE LET ipv4 == To4(ip)
             IN  IF ipv4 = Nil
                 THEN [mask |-> Nil, err |-> Ref(Errorf("not a valid IPv4 mask: %s", mask))]
                 ELSE IF Len(ipv4) < 4 THEN Panic
                 ELSE IF ~isValidSubnetMask(ipv4)
                 THEN [mask |-> Nil,
                       err |-> Ref(Errorf("invalid subnet mask: %s (must have contiguous 1s followed by 0s)", mask))]
                 ELSE [mask |-> ipv4, err |-> Nil]

\* parseSubnetMask reading what follows the "/" as a dotted-decimal mask when
\* it is no CIDR prefix length
parseSubnetMaskFallingThrough(maskIn) ==
    LET mask == TrimSpace(maskIn)
    IN  IF HasPrefix(mask, "/")
        THEN IF parseCidrNotation(mask).err = Nil THEN parseCidrNotation(mask)
             ELSE parseDottedDecimal(Drop(mask, 1))
        ELSE parseDottedDecimal(mask)

\* parseSubnetMask taking the CIDR branch without the test for the "/"
parseSubnetMaskAlwaysCidr(maskIn) ==
    parseCidrNotation(TrimSpace(maskIn))

\* parseSubnetMask returns (net.IPMask, error)
parseSubnetMask(maskIn) ==
    LET mask == TrimSpace(maskIn)
    IN  IF HasPrefix(mask, "/") THEN parseCidrNotation(mask)
        ELSE parseDottedDecimal(mask)

\* IncAddr without the break: every octet below 255 is incremented
RECURSIVE IncAddrNoBreak(_, _)
IncAddrNoBreak(addr, i) ==
    IF i < 1 THEN addr
    ELSE IF addr[i] < 255 THEN IncAddrNoBreak([addr EXCEPT ![i] = addr[i] + 1], i - 1)
    ELSE IncAddrNoBreak([addr EXCEPT ![i] = 0], i - 1)

\* DecAddr without the borrow: an octet of 0 becomes 255 and the loop ends
DecAddrNoBorrow(addr, i) ==
    IF i < 1 THEN addr
    ELSE IF addr[i] > 0 THEN [addr EXCEPT ![i] = addr[i] - 1]
    ELSE [addr EXCEPT ![i] = 255]

\* the + 1 loop over the octets, from the last to the first
RECURSIVE IncAddr(_, _)
IncAddr(addr, i) ==
    IF i < 1 THEN addr
    ELSE IF addr[i] < 255 THEN [addr EXCEPT ![i] = addr[i] + 1]
    ELSE IncAddr([addr EXCEPT ![i] = 0], i - 1)

\* the - 1 loop over the octets, from the last to the first
RECURSIVE DecAddr(_, _)
DecAddr(addr, i) ==
    IF i < 1 THEN addr
    ELSE IF addr[i] > 0 THEN [addr EXCEPT ![i] = addr[i] - 1]
    ELSE DecAddr([addr EXCEPT ![i] = 255], i - 1)

NA == <<"N", "/", "A">>

\* the fields calculateSubnet sets of a SubnetResult; IPAddress, SubnetMask
\* and Error stay empty
SubnetResult(net, bcast, minHost, maxHost, usable) ==
    [IPAddress |-> <<>>, SubnetMask |-> <<>>,
     NetworkAddress |-> net, BroadcastAddress |-> bcast,
     MinHostAddress |-> minHost, MaxHostAddress |-> maxHost,
     UsableHosts |-> usable, Error |-> <<>>]

\* UsableHostsOf without the subtraction of the network and broadcast addresses
UsableHostsNotLessTwo(prefixLen) ==
    LET totalHosts == WordShl(WordOf(IntSize \div 16, 1), 32 - prefixLen)
    IN  IF WordNegative(totalHosts) THEN WordZero(IntSize \div 16) ELSE totalHosts

\* UsableHostsOf with a shift count one too large
UsableHostsShiftOffByOne(prefixLen) ==
    LET totalHosts  == WordShl(WordOf(IntSize \div 16, 1), 33 - prefixLen)
        usableHosts == WordSub(totalHosts, 2)
    IN  IF WordNegative(usableHosts) THEN WordZero(IntSize \div 16) ELSE usableHosts

\* usableHosts: 1 << uint(32-prefixLen) as an int, less 2, floored at 0
UsableHostsOf(prefixLen) ==
    LET totalHosts  == WordShl(WordOf(IntSize \div 16, 1), 32 - prefixLen)
        usableHosts == WordSub(totalHosts, 2)
    IN  IF WordNegative(usableHosts) THEN WordZero(IntSize \div 16) ELSE usableHosts

\* BroadcastOf without the complement of the mask
BroadcastOfWithoutNot(networkAddr, mask) ==
    <<BitOr(networkAddr[1], mask[1]), BitOr(networkAddr[2], mask[2]),
      BitOr(networkAddr[3], mask[3]), BitOr(networkAddr[4], mask[4])>>

\* the broadcast address: networkAddr[i] | ^mask[i] for each of the four bytes
BroadcastOf(networkAddr, mask) ==
    <<BitOr(networkAddr[1], ByteNot(mask[1])), BitOr(networkAddr[2], ByteNot(mask[2])),
      BitOr(networkAddr[3], ByteNot(mask[3])), BitOr(networkAddr[4], ByteNot(mask[4]))>>

\* SingleHostResult counting the single address as a usable host
SingleHostCountsOne(ipv4) ==
    SubnetResult(IPString(ipv4), IPString(ipv4), NA, NA, <<"1">>)

\* case 32: network and broadcast are the entered address, no hosts
SingleHostResult(ipv4) ==
    SubnetResult(IPString(ipv4), IPString(ipv4), NA, NA, <<"0">>)

\* PointToPointResult giving the two addresses of the link as hosts (RFC 3021)
PointToPointWithHosts(networkAddr, broadcastAddr) ==
    SubnetResult(IPString(networkAddr), IPString(broadcastAddr),
                 IPString(networkAddr), IPString(broadcastAddr), <<"2">>)

\* case 31: network and broadcast as computed, no hosts
PointToPointResult(networkAddr, broadcastAddr) ==
    SubnetResult(IPString(networkAddr), IPString(broadcastAddr), NA, NA, <<"0">>)

\* the default case with the two host addresses in each other's field
NormalResultHostsSwapped(networkAddr, broadcastAddr, prefixLen) ==
    SubnetResult(IPString(networkAddr), IPString(broadcastAddr),
                 IPString(DecAddr(broadcastAddr, 4)),
                 IPString(IncAddr(networkAddr, 4)),
                 SprintfD(UsableHostsOf(prefixLen)))

\* default: hosts from network + 1 to broadcast - 1
NormalResult(networkAddr, broadcastAddr, prefixLen) ==
    SubnetResult(IPString(networkAddr), IPString(broadcastAddr),
                 IPString(IncAddr(networkAddr, 4)),
                 IPString(DecAddr(broadcastAddr, 4)),
                 SprintfD(UsableHostsOf(prefixLen)))

\* calculateSubnet returns (*SubnetResult, error); the broadcast loop reads
\* networkAddr[i] and mask[i] for i in 0..3
calculateSubnet(ipS, maskS) ==
    LET ip == ParseIP(ipS)
    IN  IF ip = Nil
        THEN [result |-> Nil, err |-> Ref(Errorf("invalid IP address: %s", ipS))]
        ELSE
        LET ipv4 == To4(ip)
        IN  IF ipv4 = Nil
            THEN [result |-> Nil, err |-> Ref(Errorf("not a valid IPv4 address: %s", ipS))]
            ELSE
            LET pm == parseSubnetMask(maskS)
            IN  IF pm = Panic THEN Panic
                ELSE IF pm.err # Nil
                THEN [result |-> Nil, err |-> pm.err]
                ELSE
                LET mask          == pm.mask
                    prefixLen     == MaskSize(mask)
                    networkAddr   == IPMaskWith(ipv4, mask)
                    broadcastAddr == BroadcastOf(networkAddr, mask)
                IN  IF Len(networkAddr) < 4 \/ Len(mask) < 4 THEN Panic
                    ELSE
                    [result |->
                        Ref(IF prefixLen = 32 THEN SingleHostResult(ipv4)
                            ELSE IF prefixLen = 31
                                 THEN PointToPointResult(networkAddr, broadcastAddr)
                                 ELSE NormalResult(networkAddr, broadcastAddr, prefixLen)),
                     err |-> Nil]

----------------------------------------------------------------------------
(* The inputs the calls are made with.                                     *)

IPOctetList == <<0, 255, 170, 1, 85, 254, 128, 192>>

IPOctets == {IPOctetList[i] : i \in 1..NumIPOctets}

MaskOctetList == <<255, 0, 254, 252, 248, 240, 224, 192, 128, 253, 251, 1, 127, 170>>

MaskOctets == {MaskOctetList[i] : i \in 1..NumMaskOctets}

\* the octet with its top n bits set, n in 0..8
PrefixOctet == <<0, 128, 192, 224, 240, 248, 252, 254, 255>>

\* the four octets of the mask of prefix length k
PrefixMask(k) ==
    [j \in 1..4 |->
        LET n == k - 8 * (j - 1)
        IN  PrefixOctet[(IF n < 0 THEN 0 ELSE IF n > 8 THEN 8 ELSE n) + 1]]

\* the text of four octets in dotted decimal, written digit by digit
OctetText(v) ==
    IF v >= 100 THEN <<Digits[(v \div 100) + 1], Digits[((v \div 10) % 10) + 1], Digits[(v % 10) + 1]>>
    ELSE IF v >= 10 THEN <<Digits[(v \div 10) + 1], Digits[(v % 10) + 1]>>
    ELSE <<Digits[v + 1]>>

Dotted(o) ==
    OctetText(o[1]) \o <<".">> \o OctetText(o[2]) \o <<".">>
    \o OctetText(o[3]) \o <<".">> \o OctetText(o[4])

CidrText(k) == <<"/">> \o OctetText(k)

Quads(S) == {<<a, b, c, d>> : a \in S, b \in S, c \in S, d \in S}

\* strings that are not dotted-decimal IPv4 literals
OtherIPStrings ==
    { <<>>,
      <<"9","9","9",".","9","9","9",".","9","9","9",".","9","9","9">>,
      <<"1",".","2",".","3">>,
      <<"1",".","2",".","3",".","4",".","5">>,
      <<"0","1",".","2",".","3",".","4">>,
      <<":",":","1">>,
      <<":",":","f","f","f","f",":","1",".","2",".","3",".","4">> }

IPStrings == {Dotted(q) : q \in Quads(IPOctets)} \cup OtherIPStrings

\* mask strings that name no prefix mask
OtherMaskStrings ==
    { <<>>, <<"/">>, <<"/","3","3">>, <<"/","9","9">>, <<"/","-","1">>,
      <<"2","4">>,
      <<"2","5","5",".","2","5","5",".","2","5","5",".","2","5","3">>,
      <<"2","5","5",".","0",".","2","5","5",".","0">>,
      <<"2","5","6",".","2","5","5",".","2","5","5",".","0">>,
      <<":",":","f","f","f","f",":","2","5","5",".","2","5","5",".","2","5","5",".","0">> }

\* mask strings with white space around them that calculateSubnet is called with
PaddedCalcMaskStrings ==
    { <<"\t", "/", "3", "3">>, <<" ", "/", "2", "4", " ">> }

\* the mask strings calculateSubnet is called with
CalcMaskStrings ==
    {CidrText(k) : k \in 0..32} \cup {Dotted(PrefixMask(k)) : k \in 0..32}
    \cup OtherMaskStrings \cup PaddedCalcMaskStrings

CidrAlphabet == {"0", "1", "2", "3", "4", "5", "6", "7", "8", "9", "+", "-", " ", "x"}

RECURSIVE StringsUpTo(_, _)
StringsUpTo(A, n) ==
    IF n = 0 THEN {<<>>}
    ELSE LET shorter == StringsUpTo(A, n - 1)
         IN  shorter \cup {Append(t, c) : t \in shorter, c \in A}

\* "/" followed by any text of at most MaxCidrLen characters
CidrStrings == {<<"/">> \o t : t \in StringsUpTo(CidrAlphabet, MaxCidrLen)}

\* mask strings with white space around them
PaddedMaskStrings ==
    { <<" ", "/", "2", "4">>, <<"\t", "/", "8", " ", "\n">>, <<" ", "/", "3", "3">>,
      <<" ", "/", " ", "8">>,
      <<" ">> \o Dotted(<<255, 255, 0, 0>>) \o <<"\r", "\n">>,
      <<" ">> \o Dotted(<<255, 0, 255, 0>>) }

\* runs of white space put before and after a mask string
Pads == { <<>>, <<" ">>, <<"\t">>, <<"\n">>, <<"\r", "\n">>, <<" ", " ">> }

\* the mask strings that are padded
PadBases ==
    { <<>>, <<"/">>, <<"/", "2", "4">>, <<"/", "3", "3">>, <<"/", " ", "8">>,
      <<"/", "2", "\t", "4">>, <<"2", "4">>, <<"/">> \o Dotted(<<255, 255, 255, 0>>),
      Dotted(<<255, 255, 0, 0>>), Dotted(<<255, 0, 255, 0>>),
      <<"2", "5", "5", ".", "2", "5", "5", " ", ".", "0", ".", "0">> }

EveryPadding == {w1 \o t \o w2 : w1 \in Pads, t \in PadBases, w2 \in Pads}

\* the mask strings parseSubnetMask is called with
ParseMaskStrings ==
    CidrStrings \cup {Dotted(q) : q \in Quads(MaskOctets)} \cup CalcMaskStrings
    \cup PaddedMaskStrings \cup EveryPadding

\* the (ip, mask) pairs the goroutines call calculateSubnet with: a normal
\* subnet, a single host, a point-to-point link and an address that fails
GoInputs ==
    { <<Dotted(<<192, 168, 1, 10>>), CidrText(24)>>,
      <<Dotted(<<10, 0, 0, 1>>), CidrText(32)>>,
      <<Dotted(<<172, 16, 0, 5>>), Dotted(<<255, 255, 255, 254>>)>>,
      <<Dotted(<<10, 0, 0, 1>>), CidrText(33)>> }

----------------------------------------------------------------------------
(* The memory of concurrent invocations of calculateSubnet.                *)

Procs == 1..NumProcs

\* what an invocation allocates: the three byte buffers and the result struct
Sites == {"broadcastAddr", "minHostAddr", "maxHostAddr", "result"}

\* CellOf giving every invocation the same memory, as package-level buffers
\* would be
CellOfShared(g, site) == <<1, site>>

\* the memory an allocation at a site gives the invocation of goroutine g:
\* make(net.IP, 4) and &SubnetResult{} return memory no other invocation holds
CellOf(g, site) == <<g, site>>

\* the zero value memory has when it is allocated
ZeroOf(site) ==
    IF site = "result" THEN SubnetResult(<<>>, <<>>, <<>>, <<>>, <<>>)
    ELSE <<0, 0, 0, 0>>

\* a goroutine that is not in a call, its locals unset
IdleFrame ==
    [at |-> "idle", ipStr |-> <<>>, maskStr |-> <<>>, ipv4 |-> Nil, mask |-> Nil,
     prefixLen |-> 0, networkAddr |-> Nil, err |-> Nil]

----------------------------------------------------------------------------
(* The request handler and main.                                           *)

\* the record handler starts from: &SubnetResult{}
EmptyResult == SubnetResult(<<>>, <<>>, <<>>, <<>>, <<>>)

\* respond without the test of line 213: every POST calls calculateSubnet
respondWithoutEmptyTest(post, ip, mask, out, tmpl) ==
    LET echoed == IF post THEN [EmptyResult EXCEPT !.IPAddress = ip, !.SubnetMask = mask]
                  ELSE EmptyResult
        result == IF ~post THEN echoed
                  ELSE IF out.err # Nil
                  THEN [echoed EXCEPT !.Error = ErrorText(out.err[1])]
                  ELSE [echoed EXCEPT
                          !.NetworkAddress = out.result[1].NetworkAddress,
                          !.BroadcastAddress = out.result[1].BroadcastAddress,
                          !.MinHostAddress = out.result[1].MinHostAddress,
                          !.MaxHostAddress = out.result[1].MaxHostAddress,
                          !.UsableHosts = out.result[1].UsableHosts]
        core   == IF post
                  THEN Ref([ip |-> ip, mask |-> mask, result |-> out.result, err |-> out.err])
                  ELSE Nil
    IN  IF post /\ out = Panic THEN Panic
        ELSE IF tmpl = "ok" THEN [status |-> 200, rendered |-> Ref(result), core |-> core]
        ELSE IF tmpl = "executeErrorAfterWrite"
        THEN [status |-> 200, rendered |-> Nil, core |-> core]
        ELSE [status |-> 500, rendered |-> Nil, core |-> core]

\* the rest of handler once the form values are read: post is r.Method ==
\* http.MethodPost, ip and mask are the form values as the handler uses them
\* and out is what calculateSubnet(ip, mask) returns, which the handler asks
\* for only when both values are non-empty
respond(post, ip, mask, out, tmpl) ==
    LET calls  == post /\ ip # <<>> /\ mask # <<>>
        echoed == IF post THEN [EmptyResult EXCEPT !.IPAddress = ip, !.SubnetMask = mask]
                  ELSE EmptyResult
        result == IF ~calls THEN echoed
                  ELSE IF out.err # Nil
                  THEN [echoed EXCEPT !.Error = ErrorText(out.err[1])]
                  ELSE [echoed EXCEPT
                          !.NetworkAddress = out.result[1].NetworkAddress,
                          !.BroadcastAddress = out.result[1].BroadcastAddress,
                          !.MinHostAddress = out.result[1].MinHostAddress,
                          !.MaxHostAddress = out.result[1].MaxHostAddress,
                          !.UsableHosts = out.result[1].UsableHosts]
        core   == IF calls
                  THEN Ref([ip |-> ip, mask |-> mask, result |-> out.result, err |-> out.err])
                  ELSE Nil
    IN  IF calls /\ out = Panic THEN Panic
        ELSE IF tmpl = "ok" THEN [status |-> 200, rendered |-> Ref(result), core |-> core]
        ELSE IF tmpl = "executeErrorAfterWrite"
        THEN [status |-> 200, rendered |-> Nil, core |-> core]
        ELSE [status |-> 500, rendered |-> Nil, core |-> core]

\* handler with the form values used as they were sent, untrimmed
handlerWithoutTrim(method, ipForm, maskForm, tmpl) ==
    IF tmpl = "loadError"
    THEN [status |-> 500, rendered |-> Nil, core |-> Nil]
    ELSE respond(method = "POST", ipForm, maskForm,
                 calculateSubnet(ipForm, maskForm), tmpl)

\* handler(w, r): the status of the response, the record the template was
\* executed with (nil when the template did not load or its execution
\* failed), and the call made to calculateSubnet with what it returned (nil
\* when none was made).  tmpl is what the template does in this request:
\* "ok", "loadError" (loadTemplate fails), "executeError" (Execute fails
\* before it has written, so that http.Error sets the status) or
\* "executeErrorAfterWrite" (it fails after the status line has gone out).
handler(method, ipForm, maskForm, tmpl) ==
    IF tmpl = "loadError"
    THEN [status |-> 500, rendered |-> Nil, core |-> Nil]
    ELSE respond(method = "POST", TrimSpace(ipForm), TrimSpace(maskForm),
                 calculateSubnet(TrimSpace(ipForm), TrimSpace(maskForm)), tmpl)

\* no request is being served
HttpIdle ==
    [at |-> "idle", method |-> "", ipForm |-> <<>>, maskForm |-> <<>>, tmpl |-> "",
     resp |-> Nil]

Methods == {"GET", "POST"}

TemplateOutcomes == {"ok", "loadError", "executeError", "executeErrorAfterWrite"}

\* the values of the form field "ip"; a field that was not sent reads as ""
FormIPs ==
    { <<>>, <<" ">>, Dotted(<<192, 168, 1, 10>>),
      <<" ">> \o Dotted(<<192, 168, 1, 10>>) \o <<"\n">>,
      Dotted(<<10, 0, 0, 1>>),
      <<"9","9","9",".","9","9","9",".","9","9","9",".","9","9","9">>,
      <<"a", "b", "c">> }

\* the values of the form field "mask"
FormMasks ==
    { <<>>, <<"\t">>, CidrText(24), <<" ">> \o CidrText(24) \o <<" ">>, CidrText(32),
      CidrText(31), CidrText(99), Dotted(<<255, 255, 0, 0>>),
      <<"\t">> \o Dotted(<<255, 255, 255, 253>>) }

\* os.Getenv: the value of the variable, "" when it is not set
Getenv(env) == IF env = Nil THEN <<>> ELSE env[1]

\* main without the test of the port text
mainWithoutPortCheck(env) ==
    LET port == IF Getenv(env) = <<>> THEN <<"8", "0", "8", "0">> ELSE Getenv(env)
    IN  [port |-> port, fatal |-> Nil, address |-> Ref(<<":">> \o port)]

\* main up to the call of http.ListenAndServe: the port text, the fatal
\* message when the process exits before listening, and the address
\* ListenAndServe is called with otherwise
main(env) ==
    LET port == IF Getenv(env) = <<>> THEN <<"8", "0", "8", "0">> ELSE Getenv(env)
    IN  IF Atoi(port).err
        THEN [port |-> port,
              fatal |-> Ref([format |-> "Invalid port number: %s", arg |-> port]),
              address |-> Nil]
        ELSE [port |-> port, fatal |-> Nil, address |-> Ref(<<":">> \o port)]

\* net.Listen takes the port of an address ":" + port, a text strconv.Atoi
\* has accepted, when its value is a port number
ListenPortValid(port) == Atoi(port).n >= 0 /\ Atoi(port).n <= 65535

\* the process is not running
ProcOff == [at |-> "off", env |-> Nil, port |-> <<>>, fatal |-> Nil, address |-> Nil]

PortAlphabet == {"0", "8", "a", "-", "+", " "}

\* what GO_SUBNET_CALCULATOR_PORT is in the environment of the process: not
\* set (nil), or set to a text
Environments ==
    {Nil} \cup {Ref(t) : t \in StringsUpTo(PortAlphabet, MaxPortLen)}
    \cup { Ref(<<"8", "0", "8", "0">>), Ref(<<"3", "0", "0", "0">>), Ref(<<"a", "b", "c">>),
            Ref(<<"8", "0", "a", "b", "c">>), Ref(<<"9", "9", "9", "9", "9">>) }

----------------------------------------------------------------------------
(* The host-address loops, and the invocation stepped through.             *)

\* no loop is being run
LoopIdle == [at |-> "idle", op |-> "", from |-> <<>>, to |-> <<>>]

LoopOctets == {0, 1, 170, 254, 255}

\* the four-byte buffers the loops are run on
LoopBuffers == Quads(LoopOctets)

\* no invocation is being stepped through: the locals of calculateSubnet, of
\* the parseSubnetMask and the isValidSubnetMask it calls, unset, and the
\* number of times the body of each loop has run
RunIdle ==
    [at |-> "idle", ipStr |-> <<>>, maskStr |-> <<>>, ipv4 |-> Nil,
     masked |-> FALSE, subnetMask |-> Nil, maskInt |-> <<0, 0>>, leadingOnes |-> 0,
     i |-> 0, mask |-> Nil, prefixLen |-> 0, networkAddr |-> Nil,
     broadcastAddr |-> Nil, minHostAddr |-> Nil, maxHostAddr |-> Nil,
     result |-> Nil, err |-> Nil,
     scans |-> 0, broadcasts |-> 0, increments |-> 0, decrements |-> 0]

\* addresses the stepped invocation is called with
RunIPStrings ==
    { Dotted(<<170, 0, 255, 170>>), Dotted(<<0, 0, 0, 0>>), Dotted(<<255, 255, 255, 255>>),
      Dotted(<<192, 168, 1, 10>>),
      <<>>, <<"a", "b", "c">>, <<":", ":", "1">>,
      <<":",":","f","f","f","f",":","1",".","2",".","3",".","4">> }

\* the mask strings of the stepped invocation as parseSubnetMask has them
\* after line 62
RunTrimmed == [m \in CalcMaskStrings |-> TrimSpace(m)]

\* net.ParseIP on each string the stepped invocation gives it (lines 97, 74)
RunParsed ==
    [t \in RunIPStrings \cup {RunTrimmed[m] : m \in CalcMaskStrings} |-> ParseIP(t)]

\* lines 66-70 on each trimmed mask string that starts with "/"
RunCidr ==
    [t \in {RunTrimmed[m] : m \in {n \in CalcMaskStrings : HasPrefix(RunTrimmed[n], "/")}}
        |-> parseCidrNotation(t)]

\* lines 185-190 for each prefix length: the text of usableHosts
RunUsableHosts == [k \in 0..32 |-> SprintfD(UsableHostsOf(k))]

\* the for condition of the broadcast loop with <= in place of <
BroadcastLoopRunsTo4(i) == i <= 4

\* the for condition of the broadcast loop: i < 4
BroadcastLoopRuns(i) == i < 4

\* the switch on prefixLen: where the invocation goes from line 137
SwitchOn(prefixLen) ==
    IF prefixLen = 32 THEN "case32" ELSE IF prefixLen = 31 THEN "case31" ELSE "minHost"

----------------------------------------------------------------------------
(* The calls.                                                              *)

Init ==
    /\ pc = "idle"
    /\ fn = "none"
    /\ ipStr = <<>>
    /\ maskStr = <<>>
    /\ maskArg = <<>>
    /\ ret = Nil
    /\ go = [g \in Procs |-> IdleFrame]
    /\ heap = [c \in Procs \X Sites |-> ZeroOf(c[2])]
    /\ hist = Nil
    /\ http = HttpIdle
    /\ proc = ProcOff
    /\ loop = LoopIdle
    /\ run = RunIdle

\* a call calculateSubnet(ip, mask)
CallCalculateSubnet ==
    /\ pc = "idle"
    /\ \E ip \in IPStrings, mask \in CalcMaskStrings :
        /\ ipStr' = ip
        /\ maskStr' = mask
        /\ ret' = calculateSubnet(ip, mask)
    /\ fn' = "calculateSubnet"
    /\ pc' = "returned"
    /\ UNCHANGED maskArg
    /\ UNCHANGED <<goVars, serverVars, stepVars>>

\* a call parseSubnetMask(mask)
CallParseSubnetMask ==
    /\ pc = "idle"
    /\ \E mask \in ParseMaskStrings :
        /\ maskStr' = mask
        /\ ret' = parseSubnetMask(mask)
    /\ fn' = "parseSubnetMask"
    /\ pc' = "returned"
    /\ UNCHANGED <<ipStr, maskArg>>
    /\ UNCHANGED <<goVars, serverVars, stepVars>>

\* a call isValidSubnetMask(m) with a four-byte mask
CallIsValidSubnetMask ==
    /\ pc = "idle"
    /\ \E m \in Quads(MaskOctets) :
        /\ maskArg' = m
        /\ ret' = isValidSubnetMask(m)
    /\ fn' = "isValidSubnetMask"
    /\ pc' = "returned"
    /\ UNCHANGED <<ipStr, maskStr>>
    /\ UNCHANGED <<goVars, serverVars, stepVars>>

\* the caller has taken the returned values
Return ==
    /\ pc = "returned"
    /\ pc' = "idle"
    /\ fn' = "none"
    /\ ipStr' = <<>>
    /\ maskStr' = <<>>
    /\ maskArg' = <<>>
    /\ ret' = Nil
    /\ UNCHANGED <<goVars, serverVars, stepVars>>

Next ==
    \/ CallCalculateSubnet
    \/ CallParseSubnetMask
    \/ CallIsValidSubnetMask
    \/ Return

Spec == Init /\ [][Next]_vars

\* the calls of calculateSubnet alone
NextCalc ==
    \/ CallCalculateSubnet
    \/ Return

SpecCalc == Init /\ [][NextCalc]_vars

\* the calls of parseSubnetMask and isValidSubnetMask alone
NextMask ==
    \/ CallParseSubnetMask
    \/ CallIsValidSubnetMask
    \/ Return

SpecMask == Init /\ [][NextMask]_vars

----------------------------------------------------------------------------
(* calculateSubnet statement by statement, run by several goroutines.      *)

\* goroutine g calls calculateSubnet(ip, mask)
GoCall(g) ==
    /\ go[g].at = "idle"
    /\ \E in \in GoInputs :
         go' = [go EXCEPT ![g] = [IdleFrame EXCEPT !.at = "parse",
                                                   !.ipStr = in[1], !.maskStr = in[2]]]
    /\ UNCHANGED <<heap, hist, callVars, serverVars, stepVars>>

\* lines 96-123: the address and the mask are parsed into values of the
\* invocation's own; an error ends the call
GoParse(g) ==
    /\ go[g].at = "parse"
    /\ LET f    == go[g]
           ip   == ParseIP(f.ipStr)
           ipv4 == To4(ip)
           pm   == parseSubnetMask(f.maskStr)
       IN  go' = [go EXCEPT ![g] =
                IF ip = Nil
                THEN [f EXCEPT !.at = "done",
                               !.err = Ref(Errorf("invalid IP address: %s", f.ipStr))]
                ELSE IF ipv4 = Nil
                THEN [f EXCEPT !.at = "done",
                               !.err = Ref(Errorf("not a valid IPv4 address: %s", f.ipStr))]
                ELSE IF pm = Panic
                THEN [f EXCEPT !.at = "panicked"]
                ELSE IF pm.err # Nil
                THEN [f EXCEPT !.at = "done", !.err = pm.err]
                ELSE [f EXCEPT !.at = "broadcast", !.ipv4 = ipv4, !.mask = pm.mask,
                               !.prefixLen = MaskSize(pm.mask),
                               !.networkAddr = IPMaskWith(ipv4, pm.mask)]]
    /\ UNCHANGED <<heap, hist, callVars, serverVars, stepVars>>

\* lines 125-129: the broadcast buffer is made and filled
GoBroadcast(g) ==
    /\ go[g].at = "broadcast"
    /\ IF Len(go[g].networkAddr) < 4 \/ Len(go[g].mask) < 4
       THEN /\ go' = [go EXCEPT ![g].at = "panicked"]
            /\ UNCHANGED heap
       ELSE /\ heap' = [heap EXCEPT ![CellOf(g, "broadcastAddr")] =
                           BroadcastOf(go[g].networkAddr, go[g].mask)]
            /\ go' = [go EXCEPT ![g].at = "result"]
    /\ UNCHANGED <<hist, callVars, serverVars, stepVars>>

\* lines 131-137: the result struct is made with the network and broadcast
\* texts, and the switch on prefixLen is taken
GoResult(g) ==
    /\ go[g].at = "result"
    /\ heap' = [heap EXCEPT ![CellOf(g, "result")] =
                    [ZeroOf("result") EXCEPT
                        !.NetworkAddress = IPString(go[g].networkAddr),
                        !.BroadcastAddress = IPString(heap[CellOf(g, "broadcastAddr")])]]
    /\ go' = [go EXCEPT ![g].at = IF go[g].prefixLen = 32 THEN "case32"
                                   ELSE IF go[g].prefixLen = 31 THEN "case31"
                                   ELSE "minHost"]
    /\ UNCHANGED <<hist, callVars, serverVars, stepVars>>

\* lines 138-145: case 32
GoSingleHost(g) ==
    /\ go[g].at = "case32"
    /\ heap' = [heap EXCEPT ![CellOf(g, "result")] =
                    [@ EXCEPT !.NetworkAddress = IPString(go[g].ipv4),
                              !.BroadcastAddress = IPString(go[g].ipv4),
                              !.MinHostAddress = NA,
                              !.MaxHostAddress = NA,
                              !.UsableHosts = <<"0">>]]
    /\ go' = [go EXCEPT ![g].at = "done"]
    /\ UNCHANGED <<hist, callVars, serverVars, stepVars>>

\* lines 147-152: case 31
GoPointToPoint(g) ==
    /\ go[g].at = "case31"
    /\ heap' = [heap EXCEPT ![CellOf(g, "result")] =
                    [@ EXCEPT !.MinHostAddress = NA,
                              !.MaxHostAddress = NA,
                              !.UsableHosts = <<"0">>]]
    /\ go' = [go EXCEPT ![g].at = "done"]
    /\ UNCHANGED <<hist, callVars, serverVars, stepVars>>

\* lines 156-166: the min-host buffer is made, the network address copied
\* into it and 1 added
GoMinHost(g) ==
    /\ go[g].at = "minHost"
    /\ heap' = [heap EXCEPT ![CellOf(g, "minHostAddr")] = IncAddr(go[g].networkAddr, 4)]
    /\ go' = [go EXCEPT ![g].at = "maxHost"]
    /\ UNCHANGED <<hist, callVars, serverVars, stepVars>>

\* lines 168-178: the max-host buffer is made, the broadcast buffer copied
\* into it and 1 subtracted
GoMaxHost(g) ==
    /\ go[g].at = "maxHost"
    /\ heap' = [heap EXCEPT ![CellOf(g, "maxHostAddr")] =
                    DecAddr(heap[CellOf(g, "broadcastAddr")], 4)]
    /\ go' = [go EXCEPT ![g].at = "hostFields"]
    /\ UNCHANGED <<hist, callVars, serverVars, stepVars>>

\* lines 180-190: the host fields of the result are set
GoHostFields(g) ==
    /\ go[g].at = "hostFields"
    /\ heap' = [heap EXCEPT ![CellOf(g, "result")] =
                    [@ EXCEPT !.MinHostAddress = IPString(heap[CellOf(g, "minHostAddr")]),
                              !.MaxHostAddress = IPString(heap[CellOf(g, "maxHostAddr")]),
                              !.UsableHosts = SprintfD(UsableHostsOf(go[g].prefixLen))]]
    /\ go' = [go EXCEPT ![g].at = "done"]
    /\ UNCHANGED <<hist, callVars, serverVars, stepVars>>

\* GoOutcome with the returned pointer leading to one struct kept for all
\* invocations
GoOutcomeOfKeptStruct(g) ==
    IF go[g].err # Nil THEN [result |-> Nil, err |-> go[g].err]
    ELSE [result |-> Ref(heap[<<1, "result">>]), err |-> Nil]

\* what the caller of goroutine g has in hand once the call is done: the
\* error, or the struct the returned pointer leads to
GoOutcome(g) ==
    IF go[g].err # Nil THEN [result |-> Nil, err |-> go[g].err]
    ELSE [result |-> Ref(heap[CellOf(g, "result")]), err |-> Nil]

\* the caller has taken the outcome; nothing refers to the invocation's
\* memory any more
GoReturn(g) ==
    /\ go[g].at = "done"
    /\ go' = [go EXCEPT ![g] = IdleFrame]
    /\ heap' = [c \in Procs \X Sites |->
                    IF \E site \in Sites : c = CellOf(g, site) THEN ZeroOf(c[2]) ELSE heap[c]]
    /\ UNCHANGED <<hist, callVars, serverVars, stepVars>>

\* the invocation goroutine g has done is remembered with its outcome
GoRemember(g) ==
    /\ go[g].at = "done"
    /\ hist = Nil
    /\ hist' = Ref([ipStr |-> go[g].ipStr, maskStr |-> go[g].maskStr,
                     outcome |-> GoOutcome(g)])
    /\ go' = [go EXCEPT ![g] = IdleFrame]
    /\ heap' = [c \in Procs \X Sites |->
                    IF \E site \in Sites : c = CellOf(g, site) THEN ZeroOf(c[2]) ELSE heap[c]]
    /\ UNCHANGED <<callVars, serverVars, stepVars>>

GoStep(g) ==
    \/ GoCall(g)
    \/ GoParse(g)
    \/ GoBroadcast(g)
    \/ GoResult(g)
    \/ GoSingleHost(g)
    \/ GoPointToPoint(g)
    \/ GoMinHost(g)
    \/ GoMaxHost(g)
    \/ GoHostFields(g)
    \/ GoReturn(g)

\* concurrent invocations of calculateSubnet
NextGo == \E g \in Procs : GoStep(g)

SpecGo == Init /\ [][NextGo]_vars

\* invocations of calculateSubnet, one of them remembered
NextRepeat == \E g \in Procs : GoStep(g) \/ GoRemember(g)

SpecRepeat == Init /\ [][NextRepeat]_vars

----------------------------------------------------------------------------
(* Requests served by handler.                                             *)

\* a request arrives and handler serves it
Handle ==
    /\ http.at = "idle"
    /\ \E method \in Methods, ipForm \in FormIPs, maskForm \in FormMasks,
          tmpl \in TemplateOutcomes :
         http' = [at |-> "responded", method |-> method, ipForm |-> ipForm,
                  maskForm |-> maskForm, tmpl |-> tmpl,
                  resp |-> handler(method, ipForm, maskForm, tmpl)]
    /\ UNCHANGED <<callVars, goVars, proc, stepVars>>

\* the response has been sent
HttpDone ==
    /\ http.at = "responded"
    /\ http' = HttpIdle
    /\ UNCHANGED <<callVars, goVars, proc, stepVars>>

NextHandler ==
    \/ Handle
    \/ HttpDone

SpecHandler == Init /\ [][NextHandler]_vars

----------------------------------------------------------------------------
(* The server process.                                                     *)

\* the process is started in an environment
Exec ==
    /\ proc.at = "off"
    /\ \E env \in Environments : proc' = [ProcOff EXCEPT !.at = "started", !.env = env]
    /\ UNCHANGED <<callVars, goVars, http, stepVars>>

\* main runs to log.Fatalf or to the call of http.ListenAndServe
RunMain ==
    /\ proc.at = "started"
    /\ LET m == main(proc.env)
       IN  proc' = [proc EXCEPT !.at = IF m.fatal # Nil THEN "exited" ELSE "listen",
                                !.port = m.port, !.fatal = m.fatal, !.address = m.address]
    /\ UNCHANGED <<callVars, goVars, http, stepVars>>

\* ListenAndServe has the port and serves
Serve ==
    /\ proc.at = "listen"
    /\ ListenPortValid(proc.port)
    /\ proc' = [proc EXCEPT !.at = "serving"]
    /\ UNCHANGED <<callVars, goVars, http, stepVars>>

\* ListenAndServe returns an error (the port is taken, or is no port
\* number) and main ends with log.Fatal
ListenFails ==
    /\ proc.at = "listen"
    /\ proc' = [proc EXCEPT !.at = "exited",
                             !.fatal = Ref([format |-> "Server failed to start:", arg |-> <<>>])]
    /\ UNCHANGED <<callVars, goVars, http, stepVars>>

\* the process has exited or is stopped
ProcEnd ==
    /\ proc.at \in {"exited", "serving"}
    /\ proc' = ProcOff
    /\ UNCHANGED <<callVars, goVars, http, stepVars>>

NextMain ==
    \/ Exec
    \/ RunMain
    \/ Serve
    \/ ListenFails
    \/ ProcEnd

SpecMain == Init /\ [][NextMain]_vars

----------------------------------------------------------------------------
(* The + 1 and - 1 loops of calculateSubnet, run on a buffer.              *)

\* lines 157-166 on a copy of the four bytes a
Increment ==
    /\ pc = "idle"
    /\ loop.at = "idle"
    /\ pc' = "looping"
    /\ \E a \in LoopBuffers :
         loop' = [at |-> "done", op |-> "increment", from |-> a, to |-> IncAddr(a, 4)]
    /\ UNCHANGED <<fn, ipStr, maskStr, maskArg, ret, goVars, serverVars, run>>

\* lines 169-178 on a copy of the four bytes a
Decrement ==
    /\ pc = "idle"
    /\ loop.at = "idle"
    /\ pc' = "looping"
    /\ \E a \in LoopBuffers :
         loop' = [at |-> "done", op |-> "decrement", from |-> a, to |-> DecAddr(a, 4)]
    /\ UNCHANGED <<fn, ipStr, maskStr, maskArg, ret, goVars, serverVars, run>>

\* the buffer has been read
LoopDone ==
    /\ loop.at = "done"
    /\ loop' = LoopIdle
    /\ pc' = "idle"
    /\ UNCHANGED <<fn, ipStr, maskStr, maskArg, ret, goVars, serverVars, run>>

\* calls of calculateSubnet, and the two loops on buffers of every content
NextHosts ==
    \/ CallCalculateSubnet
    \/ Return
    \/ Increment
    \/ Decrement
    \/ LoopDone

SpecHosts == Init /\ [][NextHosts]_vars

----------------------------------------------------------------------------
(* Two calls of calculateSubnet made by one caller.                        *)

\* the caller calls calculateSubnet with an address and the mask of prefix
\* length k, written "/k" in the first call and in dotted decimal in the
\* second, and has both outcomes in hand
CallBothNotations ==
    /\ pc = "idle"
    /\ hist = Nil
    /\ \E ip \in IPStrings, k \in 0..32 :
         /\ ipStr' = ip
         /\ maskStr' = CidrText(k)
         /\ ret' = calculateSubnet(ip, CidrText(k))
         /\ hist' = Ref([ipStr |-> ip, maskStr |-> Dotted(PrefixMask(k)),
                          outcome |-> calculateSubnet(ip, Dotted(PrefixMask(k)))])
    /\ fn' = "bothNotations"
    /\ pc' = "returned"
    /\ UNCHANGED <<maskArg, go, heap, serverVars, stepVars>>

\* the caller is done with the two outcomes
ReturnBoth ==
    /\ pc = "returned"
    /\ hist # Nil
    /\ pc' = "idle"
    /\ fn' = "none"
    /\ ipStr' = <<>>
    /\ maskStr' = <<>>
    /\ ret' = Nil
    /\ hist' = Nil
    /\ UNCHANGED <<maskArg, go, heap, serverVars, stepVars>>

NextNotations ==
    \/ CallBothNotations
    \/ ReturnBoth

SpecNotations == Init /\ [][NextNotations]_vars

\* addresses that share their first 31, 24, 16, 15 and 0 bits with the
\* first one, the same address in the IPv4-mapped form, the two extremes
\* and a text that is no address
SubnetIPs ==
    { Dotted(<<192, 168, 1, 10>>), Dotted(<<192, 168, 1, 11>>),
      Dotted(<<192, 168, 1, 200>>), Dotted(<<192, 168, 200, 10>>),
      Dotted(<<192, 169, 1, 10>>), Dotted(<<64, 168, 1, 10>>),
      <<":", ":", "f", "f", "f", "f", ":">> \o Dotted(<<192, 168, 1, 10>>),
      Dotted(<<0, 0, 0, 0>>), Dotted(<<255, 255, 255, 255>>),
      <<"a", "b", "c">> }

\* the caller calls calculateSubnet with two addresses and the same mask, and
\* has both outcomes in hand
CallSameMask ==
    /\ pc = "idle"
    /\ hist = Nil
    /\ \E ip1 \in SubnetIPs, ip2 \in SubnetIPs, mask \in CalcMaskStrings :
         /\ ipStr' = ip1
         /\ maskStr' = mask
         /\ ret' = calculateSubnet(ip1, mask)
         /\ hist' = Ref([ipStr |-> ip2, maskStr |-> mask,
                          outcome |-> calculateSubnet(ip2, mask)])
    /\ fn' = "sameMask"
    /\ pc' = "returned"
    /\ UNCHANGED <<maskArg, go, heap, serverVars, stepVars>>

\* the second call, made when the first one returned a result
AgainOnNetwork(ip, mask, out) ==
    /\ out # Panic
    /\ out.err = Nil
    /\ ipStr' = ip
    /\ maskStr' = mask
    /\ ret' = out
    /\ hist' = Ref([ipStr |-> out.result[1].NetworkAddress, maskStr |-> mask,
                     outcome |-> calculateSubnet(out.result[1].NetworkAddress, mask)])

\* the caller calls calculateSubnet, and on success calls it again with the
\* returned NetworkAddress and the same mask
CallOnNetwork ==
    /\ pc = "idle"
    /\ hist = Nil
    /\ \E ip \in SubnetIPs, mask \in CalcMaskStrings :
         AgainOnNetwork(ip, mask, calculateSubnet(ip, mask))
    /\ fn' = "onNetwork"
    /\ pc' = "returned"
    /\ UNCHANGED <<maskArg, go, heap, serverVars, stepVars>>

NextSubnet ==
    \/ CallSameMask
    \/ CallOnNetwork
    \/ ReturnBoth

SpecSubnet == Init /\ [][NextSubnet]_vars

----------------------------------------------------------------------------
(* One invocation of calculateSubnet, loop iteration by loop iteration.    *)

\* RunCall with the mask parsed first: the call starts at line 108
RunCallMaskFirst ==
    /\ run.at = "idle"
    /\ \E ip \in RunIPStrings, mask \in CalcMaskStrings :
         run' = [RunIdle EXCEPT !.at = "parseMask", !.ipStr = ip, !.maskStr = mask]
    /\ UNCHANGED <<callVars, goVars, serverVars, loop>>

\* calculateSubnet(ip, mask) is called
RunCall ==
    /\ run.at = "idle"
    /\ \E ip \in RunIPStrings, mask \in CalcMaskStrings :
         run' = [RunIdle EXCEPT !.at = "parseIP", !.ipStr = ip, !.maskStr = mask]
    /\ UNCHANGED <<callVars, goVars, serverVars, loop>>

\* lines 97-105: the address is parsed
RunParseIP ==
    /\ run.at = "parseIP"
    /\ LET ip   == RunParsed[run.ipStr]
           ipv4 == To4(ip)
       IN  run' = IF ip = Nil
                  THEN [run EXCEPT !.at = "done",
                                   !.err = Ref(Errorf("invalid IP address: %s", run.ipStr))]
                  ELSE IF ipv4 = Nil
                  THEN [run EXCEPT !.at = "done",
                                   !.err = Ref(Errorf("not a valid IPv4 address: %s", run.ipStr))]
                  ELSE [run EXCEPT !.at = "parseMask", !.ipv4 = ipv4]
    /\ UNCHANGED <<callVars, goVars, serverVars, loop>>

\* line 108 and parseSubnetMask, lines 62-84 and 43: the mask string is
\* trimmed and read as a prefix length, or as four bytes the scan is to check
RunParseMask ==
    /\ run.at = "parseMask"
    /\ LET mask == RunTrimmed[run.maskStr]
           ip   == RunParsed[mask]
           ipv4 == To4(ip)
           cidr == RunCidr[mask]
           f    == [run EXCEPT !.masked = TRUE]
       IN  run' = IF HasPrefix(mask, "/")
                  THEN IF cidr = Panic THEN [f EXCEPT !.at = "panicked"]
                       ELSE IF cidr.err # Nil THEN [f EXCEPT !.at = "done", !.err = cidr.err]
                       ELSE [f EXCEPT !.at = "size", !.mask = cidr.mask]
                  ELSE IF ip = Nil
                  THEN [f EXCEPT !.at = "done",
                                 !.err = Ref(Errorf("invalid subnet mask format: %s", mask))]
                  ELSE IF ipv4 = Nil
                  THEN [f EXCEPT !.at = "done",
                                 !.err = Ref(Errorf("not a valid IPv4 mask: %s", mask))]
                  ELSE IF Len(ipv4) < 4 THEN [f EXCEPT !.at = "panicked"]
                  ELSE [f EXCEPT !.at = "scan", !.subnetMask = ipv4,
                                 !.maskInt = MaskInt(ipv4), !.leadingOnes = 0, !.i = 31]
    /\ UNCHANGED <<callVars, goVars, serverVars, loop>>

\* lines 47-53: the body of the scan for leading ones runs once, and the
\* loop goes on when the bit was set and i is still >= 0
RunScan ==
    /\ run.at = "scan"
    /\ run.i >= 0
    /\ run' = IF MaskBitSet(run.maskInt, run.i)
              THEN [run EXCEPT !.leadingOnes = @ + 1, !.i = @ - 1, !.scans = @ + 1,
                               !.at = IF run.i - 1 >= 0 THEN "scan" ELSE "scanned"]
              ELSE [run EXCEPT !.scans = @ + 1, !.at = "scanned"]
    /\ UNCHANGED <<callVars, goVars, serverVars, loop>>

\* lines 56-57 and 87-91: the mask is compared with the expected one
RunScanned ==
    /\ run.at = "scanned"
    /\ run' = IF run.maskInt = WordShl(<<65535, 65535>>, 32 - run.leadingOnes)
              THEN [run EXCEPT !.at = "size", !.mask = run.subnetMask]
              ELSE [run EXCEPT !.at = "done",
                      !.err = Ref(Errorf("invalid subnet mask: %s (must have contiguous 1s followed by 0s)",
                                         RunTrimmed[run.maskStr]))]
    /\ UNCHANGED <<callVars, goVars, serverVars, loop>>

\* lines 114-126: the prefix length, the network address, and the broadcast
\* buffer made
RunSize ==
    /\ run.at = "size"
    /\ run' = [run EXCEPT !.prefixLen = MaskSize(run.mask),
                          !.networkAddr = IPMaskWith(run.ipv4, run.mask),
                          !.broadcastAddr = <<0, 0, 0, 0>>,
                          !.i = 0,
                          !.at = IF BroadcastLoopRuns(0) THEN "broadcast" ELSE "result"]
    /\ UNCHANGED <<callVars, goVars, serverVars, loop>>

\* lines 127-129: the body of the broadcast loop runs once; an index past
\* the end of a slice panics
RunBroadcast ==
    /\ run.at = "broadcast"
    /\ LET j == run.i + 1
       IN  run' = IF j > Len(run.networkAddr) \/ j > Len(run.mask) \/ j > Len(run.broadcastAddr)
                  THEN [run EXCEPT !.at = "panicked", !.broadcasts = @ + 1]
                  ELSE [run EXCEPT
                          !.broadcastAddr[j] = BitOr(run.networkAddr[j], ByteNot(run.mask[j])),
                          !.i = @ + 1, !.broadcasts = @ + 1,
                          !.at = IF BroadcastLoopRuns(run.i + 1) THEN "broadcast" ELSE "result"]
    /\ UNCHANGED <<callVars, goVars, serverVars, loop>>

\* lines 131-137: the result struct is made and the switch taken
RunResult ==
    /\ run.at = "result"
    /\ run' = [run EXCEPT
                 !.result = Ref([EmptyResult EXCEPT
                                   !.NetworkAddress = IPString(run.networkAddr),
                                   !.BroadcastAddress = IPString(run.broadcastAddr)]),
                 !.at = SwitchOn(run.prefixLen)]
    /\ UNCHANGED <<callVars, goVars, serverVars, loop>>

\* lines 138-145: case 32
RunSingleHost ==
    /\ run.at = "case32"
    /\ run' = [run EXCEPT !.result[1].NetworkAddress = IPString(run.ipv4),
                          !.result[1].BroadcastAddress = IPString(run.ipv4),
                          !.result[1].MinHostAddress = NA,
                          !.result[1].MaxHostAddress = NA,
                          !.result[1].UsableHosts = <<"0">>,
                          !.at = "done"]
    /\ UNCHANGED <<callVars, goVars, serverVars, loop>>

\* lines 147-152: case 31
RunPointToPoint ==
    /\ run.at = "case31"
    /\ run' = [run EXCEPT !.result[1].MinHostAddress = NA,
                          !.result[1].MaxHostAddress = NA,
                          !.result[1].UsableHosts = <<"0">>,
                          !.at = "done"]
    /\ UNCHANGED <<callVars, goVars, serverVars, loop>>

\* lines 157-158: the min-host buffer is made and the network address copied
\* line 158 copying the broadcast address into the min-host buffer
RunMinHostFromBroadcast ==
    /\ run.at = "minHost"
    /\ run' = [run EXCEPT !.minHostAddr = run.broadcastAddr, !.i = 3, !.at = "increment"]
    /\ UNCHANGED <<callVars, goVars, serverVars, loop>>

RunMinHost ==
    /\ run.at = "minHost"
    /\ run' = [run EXCEPT !.minHostAddr = run.networkAddr, !.i = 3, !.at = "increment"]
    /\ UNCHANGED <<callVars, goVars, serverVars, loop>>

\* lines 160-166: the body of the + 1 loop runs once
RunIncrement ==
    /\ run.at = "increment"
    /\ run.i >= 0
    /\ LET j == run.i + 1
       IN  run' = IF run.minHostAddr[j] < 255
                  THEN [run EXCEPT !.minHostAddr[j] = @ + 1, !.increments = @ + 1,
                                   !.at = "maxHost"]
                  ELSE [run EXCEPT !.minHostAddr[j] = 0, !.i = @ - 1, !.increments = @ + 1,
                                   !.at = IF run.i - 1 >= 0 THEN "increment" ELSE "maxHost"]
    /\ UNCHANGED <<callVars, goVars, serverVars, loop>>

\* lines 169-170: the max-host buffer is made and the broadcast address copied
RunMaxHost ==
    /\ run.at = "maxHost"
    /\ run' = [run EXCEPT !.maxHostAddr = run.broadcastAddr, !.i = 3, !.at = "decrement"]
    /\ UNCHANGED <<callVars, goVars, serverVars, loop>>

\* lines 172-178: the body of the - 1 loop runs once
RunDecrement ==
    /\ run.at = "decrement"
    /\ run.i >= 0
    /\ LET j == run.i + 1
       IN  run' = IF run.maxHostAddr[j] > 0
                  THEN [run EXCEPT !.maxHostAddr[j] = @ - 1, !.decrements = @ + 1,
                                   !.at = "hostFields"]
                  ELSE [run EXCEPT !.maxHostAddr[j] = 255, !.i = @ - 1, !.decrements = @ + 1,
                                   !.at = IF run.i - 1 >= 0 THEN "decrement" ELSE "hostFields"]
    /\ UNCHANGED <<callVars, goVars, serverVars, loop>>

\* lines 180-190: the host fields of the result are set
RunHostFields ==
    /\ run.at = "hostFields"
    /\ run' = [run EXCEPT !.result[1].MinHostAddress = IPString(run.minHostAddr),
                          !.result[1].MaxHostAddress = IPString(run.maxHostAddr),
                          !.result[1].UsableHosts = RunUsableHosts[run.prefixLen],
                          !.at = "done"]
    /\ UNCHANGED <<callVars, goVars, serverVars, loop>>

\* line 193, or an error return: the caller has the outcome
RunReturn ==
    /\ run.at = "done"
    /\ run' = RunIdle
    /\ UNCHANGED <<callVars, goVars, serverVars, loop>>

\* a step of the invocation once it is called
RunStep ==
    \/ RunParseIP
    \/ RunParseMask
    \/ RunScan
    \/ RunScanned
    \/ RunSize
    \/ RunBroadcast
    \/ RunResult
    \/ RunSingleHost
    \/ RunPointToPoint
    \/ RunMinHost
    \/ RunIncrement
    \/ RunMaxHost
    \/ RunDecrement
    \/ RunHostFields

NextRun ==
    \/ RunCall
    \/ RunStep
    \/ RunReturn

SpecRun == Init /\ [][NextRun]_vars

\* the goroutine that runs the invocation is scheduled: a statement that can
\* run does run
SpecRunFair == SpecRun /\ WF_vars(RunStep)

----------------------------------------------------------------------------
(* What the properties are stated with: texts read as numbers.             *)

RECURSIVE SplitDots(_, _, _)
SplitDots(s, cur, acc) ==
    IF Len(s) = 0 THEN Append(acc, cur)
    ELSE IF Head(s) = "." THEN SplitDots(Tail(s), <<>>, Append(acc, cur))
    ELSE SplitDots(Tail(s), Append(cur, Head(s)), acc)

AllDigits(t) == \A i \in 1..Len(t) : IsDigit(t[i])

RECURSIVE DecimalValue(_)
DecimalValue(t) ==
    IF Len(t) = 0 THEN 0
    ELSE 10 * DecimalValue(SubSeq(t, 1, Len(t) - 1)) + DigitVal(t[Len(t)])

\* a decimal number without sign or leading zero
IsPlainDecimal(t) == Len(t) >= 1 /\ AllDigits(t) /\ (Len(t) > 1 => t[1] # "0")

IsOctetText(t) == IsPlainDecimal(t) /\ Len(t) <= 3 /\ DecimalValue(t) <= 255

\* a dotted-decimal IPv4 literal: four octets 0..255 separated by dots
IsDottedQuad(s) ==
    LET f == SplitDots(s, <<>>, <<>>)
    IN  Len(f) = 4 /\ \A i \in 1..4 : IsOctetText(f[i])

\* the four octets a dotted-decimal literal names
QuadOf(s) ==
    LET f == SplitDots(s, <<>>, <<>>)
    IN  <<DecimalValue(f[1]), DecimalValue(f[2]), DecimalValue(f[3]), DecimalValue(f[4])>>

MappedPrefix == <<":", ":", "f", "f", "f", "f", ":">>

\* the dotted-decimal part of a text, which the IPv4-mapped form "::ffff:a.b.c.d"
\* carries after its prefix
Unmap(s) ==
    IF Len(s) > 7 /\ SubSeq(s, 1, 7) = MappedPrefix THEN Drop(s, 7) ELSE s

\* bit j (0 the lowest, 31 the highest) of four octets read big-endian
AddrBit(q, j) == Bit(q[4 - (j \div 8)], j % 8)

\* four octets as a 32-bit number, held as its two 16-bit halves
Num32(q) == <<q[1] * 256 + q[2], q[3] * 256 + q[4]>>

Less32(x, y) == x[1] < y[1] \/ (x[1] = y[1] /\ x[2] < y[2])

Leq32(x, y) == x = y \/ Less32(x, y)

\* x + 1; the high half leaves 0..65535 when x is 2^32 - 1
Succ32(x) == IF x[2] < 65535 THEN <<x[1], x[2] + 1>> ELSE <<x[1] + 1, 0>>

\* x - y for x >= y
Sub32(x, y) ==
    IF x[2] >= y[2] THEN <<x[1] - y[1], x[2] - y[2]>>
    ELSE <<x[1] - y[1] - 1, x[2] + 65536 - y[2]>>

\* max(0, b - n - 1)
HostsBetween(n, b) ==
    IF ~Less32(n, b) THEN <<0, 0>> ELSE Sub32(Sub32(b, n), <<0, 1>>)

\* the number a plain decimal text names, as high and low 16-bit halves
RECURSIVE DecimalPair(_, _)
DecimalPair(t, acc) ==
    IF Len(t) = 0 THEN acc
    ELSE LET lo == acc[2] * 10 + DigitVal(Head(t))
         IN  DecimalPair(Tail(t), <<acc[1] * 10 + (lo \div 65536), lo % 65536>>)

NumberOf(t) == DecimalPair(t, <<0, 0>>)

\* 2^(32-k) - 2 for k in 0..30
TwoToHostBitsLessTwo(k) ==
    IF k <= 16 THEN <<Pow2(16 - k) - 1, 65534>> ELSE <<0, Pow2(32 - k) - 2>>

\* 0xFFFFFFFF << (32 - k), truncated to 32 bits, for k in 0..32
ShiftedOnes(k) ==
    IF k <= 16 THEN <<65536 - Pow2(16 - k), 0>> ELSE <<65535, 65536 - Pow2(32 - k)>>

IsPrefixMaskValue(m) == \E k \in 0..32 : Num32(m) = ShiftedOnes(k)

\* the prefix length a mask text names, as "/k" or as the dotted k-bit mask
NamesPrefix(t, k) == t = CidrText(k) \/ t = Dotted(PrefixMask(k))

HasPrefixLength(t) == \E k \in 0..32 : NamesPrefix(t, k)

PrefixLengthOf(t) == CHOOSE k \in 0..32 : NamesPrefix(t, k)

CalcReturned == pc = "returned" /\ fn = "calculateSubnet"

CalcSucceeded == CalcReturned /\ ret.err = Nil /\ Len(ret.result) = 1

ParseReturned == pc = "returned" /\ fn = "parseSubnetMask"

NonContiguousFormat == "invalid subnet mask: %s (must have contiguous 1s followed by 0s)"

----------------------------------------------------------------------------
(* Properties.                                                             *)

\* C1: whenever calculateSubnet(a, m) succeeds, NetworkAddress is the
\* dotted-decimal text of a AND m and BroadcastAddress that of
\* NetworkAddress OR NOT m, bit for bit.
C1_NetworkAndBroadcast ==
    CalcSucceeded =>
        /\ IsDottedQuad(Unmap(ipStr))
        /\ HasPrefixLength(Unmap(TrimSpace(maskStr)))
        /\ LET r == ret.result[1]
               a == QuadOf(Unmap(ipStr))
               m == PrefixMask(PrefixLengthOf(Unmap(TrimSpace(maskStr))))
           IN  /\ IsDottedQuad(r.NetworkAddress)
               /\ IsDottedQuad(r.BroadcastAddress)
               /\ LET n == QuadOf(r.NetworkAddress)
                      b == QuadOf(r.BroadcastAddress)
                  IN  \A j \in 0..31 :
                        /\ AddrBit(n, j) = AddrBit(a, j) * AddrBit(m, j)
                        /\ AddrBit(b, j) = (IF AddrBit(m, j) = 0 THEN 1 ELSE AddrBit(n, j))

C1_Witness ==
    /\ CalcSucceeded
    /\ ipStr = Dotted(<<170, 255, 170, 0>>)
    /\ maskStr = CidrText(12)
    /\ ret.result[1].NetworkAddress = Dotted(<<170, 240, 0, 0>>)
    /\ ret.result[1].BroadcastAddress = Dotted(<<170, 255, 255, 255>>)

\* C2: for a valid address and "/k" with k in 0..30, calculateSubnet succeeds,
\* UsableHosts is the decimal text of 2^(32-k) - 2, MinHostAddress is
\* NetworkAddress + 1 and MaxHostAddress is BroadcastAddress - 1 as 32-bit
\* numbers.
C2_HostsOfNormalSubnet ==
    \A k \in 0..30 :
        (CalcReturned /\ IsDottedQuad(ipStr) /\ maskStr = CidrText(k)) =>
            /\ CalcSucceeded
            /\ LET r == ret.result[1]
               IN  /\ IsPlainDecimal(r.UsableHosts)
                   /\ NumberOf(r.UsableHosts) = TwoToHostBitsLessTwo(k)
                   /\ IsDottedQuad(r.MinHostAddress)
                   /\ IsDottedQuad(r.MaxHostAddress)
                   /\ Num32(QuadOf(r.MinHostAddress))
                        = Succ32(Num32(QuadOf(r.NetworkAddress)))
                   /\ Succ32(Num32(QuadOf(r.MaxHostAddress)))
                        = Num32(QuadOf(r.BroadcastAddress))

C2_Witness ==
    /\ CalcSucceeded
    /\ ipStr = Dotted(<<170, 0, 255, 170>>)
    /\ maskStr = CidrText(0)
    /\ ret.result[1].UsableHosts = <<"4", "2", "9", "4", "9", "6", "7", "2", "9", "4">>
    /\ ret.result[1].MinHostAddress = Dotted(<<0, 0, 0, 1>>)
    /\ ret.result[1].MaxHostAddress = Dotted(<<255, 255, 255, 254>>)

\* C3: for a valid address and a mask of prefix length 32, NetworkAddress and
\* BroadcastAddress are the input address text, MinHostAddress and
\* MaxHostAddress are "N/A" and UsableHosts is "0".
C3_SingleHost ==
    (CalcReturned /\ IsDottedQuad(ipStr) /\ NamesPrefix(maskStr, 32)) =>
        /\ CalcSucceeded
        /\ ret.result[1].NetworkAddress = ipStr
        /\ ret.result[1].BroadcastAddress = ipStr
        /\ ret.result[1].MinHostAddress = <<"N", "/", "A">>
        /\ ret.result[1].MaxHostAddress = <<"N", "/", "A">>
        /\ ret.result[1].UsableHosts = <<"0">>

C3_Witness ==
    /\ CalcSucceeded
    /\ ipStr = Dotted(<<170, 0, 255, 170>>)
    /\ maskStr = Dotted(<<255, 255, 255, 255>>)
    /\ ret.result[1].NetworkAddress = ipStr
    /\ ret.result[1].MinHostAddress = <<"N", "/", "A">>

\* C4: for a valid address and a mask of prefix length 31, NetworkAddress is
\* the address with its lowest bit cleared, BroadcastAddress the address with
\* its lowest bit set, MinHostAddress and MaxHostAddress are "N/A" and
\* UsableHosts is "0".
C4_PointToPoint ==
    (CalcReturned /\ IsDottedQuad(ipStr) /\ NamesPrefix(maskStr, 31)) =>
        /\ CalcSucceeded
        /\ LET a    == QuadOf(ipStr)
               even == a[4] - (a[4] % 2)
           IN  /\ ret.result[1].NetworkAddress = Dotted(<<a[1], a[2], a[3], even>>)
               /\ ret.result[1].BroadcastAddress = Dotted(<<a[1], a[2], a[3], even + 1>>)
        /\ ret.result[1].MinHostAddress = <<"N", "/", "A">>
        /\ ret.result[1].MaxHostAddress = <<"N", "/", "A">>
        /\ ret.result[1].UsableHosts = <<"0">>

C4_Witness ==
    /\ CalcSucceeded
    /\ ipStr = Dotted(<<0, 170, 0, 255>>)
    /\ maskStr = CidrText(31)
    /\ ret.result[1].NetworkAddress = Dotted(<<0, 170, 0, 254>>)
    /\ ret.result[1].BroadcastAddress = ipStr
    /\ ret.result[1].UsableHosts = <<"0">>

\* C5: whenever calculateSubnet succeeds, NetworkAddress <= ip <=
\* BroadcastAddress as unsigned 32-bit numbers.
C5_AddressWithinSubnet ==
    CalcSucceeded =>
        /\ IsDottedQuad(Unmap(ipStr))
        /\ LET a == Num32(QuadOf(Unmap(ipStr)))
               n == Num32(QuadOf(ret.result[1].NetworkAddress))
               b == Num32(QuadOf(ret.result[1].BroadcastAddress))
           IN  Leq32(n, a) /\ Leq32(a, b)

C5_Witness ==
    /\ CalcSucceeded
    /\ ipStr = Dotted(<<170, 0, 255, 170>>)
    /\ maskStr = CidrText(20)
    /\ ret.result[1].NetworkAddress = Dotted(<<170, 0, 240, 0>>)
    /\ ret.result[1].BroadcastAddress = Dotted(<<170, 0, 255, 255>>)

\* C6: whenever calculateSubnet succeeds with a prefix length other than 31
\* and 32, the number in UsableHosts is max(0, BroadcastAddress -
\* NetworkAddress - 1), the addresses read as unsigned 32-bit numbers.
C6_UsableHostsBetween ==
    CalcSucceeded =>
        /\ HasPrefixLength(Unmap(TrimSpace(maskStr)))
        /\ PrefixLengthOf(Unmap(TrimSpace(maskStr))) \notin {31, 32} =>
             /\ IsPlainDecimal(ret.result[1].UsableHosts)
             /\ NumberOf(ret.result[1].UsableHosts)
                  = HostsBetween(Num32(QuadOf(ret.result[1].NetworkAddress)),
                                 Num32(QuadOf(ret.result[1].BroadcastAddress)))

C6_Witness ==
    /\ CalcSucceeded
    /\ ipStr = Dotted(<<170, 0, 255, 170>>)
    /\ maskStr = Dotted(<<255, 255, 0, 0>>)
    /\ ret.result[1].NetworkAddress = Dotted(<<170, 0, 0, 0>>)
    /\ ret.result[1].BroadcastAddress = Dotted(<<170, 0, 255, 255>>)
    /\ ret.result[1].UsableHosts = <<"6", "5", "5", "3", "4">>

\* C7, as stated: whenever calculateSubnet succeeds, UsableHosts is the
\* decimal text of an integer in [0, 2^30 - 2].
C7_UsableHostsBelowTwoTo30 ==
    CalcSucceeded =>
        /\ IsPlainDecimal(ret.result[1].UsableHosts)
        /\ Leq32(NumberOf(ret.result[1].UsableHosts), <<16383, 65534>>)

\* C7, amended: whenever calculateSubnet succeeds, UsableHosts is the decimal
\* text of an integer in [0, 2^32 - 2].
C7_UsableHostsRange ==
    CalcSucceeded =>
        /\ IsPlainDecimal(ret.result[1].UsableHosts)
        /\ Leq32(NumberOf(ret.result[1].UsableHosts), <<65535, 65534>>)

C7_Witness ==
    /\ CalcSucceeded
    /\ maskStr = CidrText(1)
    /\ ipStr = Dotted(<<255, 0, 0, 170>>)
    /\ ret.result[1].UsableHosts = <<"2", "1", "4", "7", "4", "8", "3", "6", "4", "6">>

\* an optional sign followed by one or more decimal digits
IsDecimalInteger(t) ==
    LET body == IF Len(t) > 0 /\ t[1] \in {"+", "-"} THEN Tail(t) ELSE t
    IN  Len(body) >= 1 /\ AllDigits(body)

\* the integer such a text names
IntegerOf(t) ==
    IF t[1] = "-" THEN 0 - DecimalValue(Tail(t))
    ELSE IF t[1] = "+" THEN DecimalValue(Tail(t))
    ELSE DecimalValue(t)

\* C8: for a mask string that starts with "/" once trimmed, parseSubnetMask
\* succeeds exactly when the rest is a decimal integer n with 0 <= n <= 32;
\* the mask returned then has its top n bits set and the other 32-n clear,
\* and otherwise the error is the invalid-CIDR error.
C8_CidrParsing ==
    (ParseReturned /\ HasPrefix(TrimSpace(maskStr), "/")) =>
        LET rest  == Tail(TrimSpace(maskStr))
            valid == IsDecimalInteger(rest) /\ IntegerOf(rest) >= 0 /\ IntegerOf(rest) <= 32
        IN  /\ (ret.err = Nil) <=> valid
            /\ valid =>
                 /\ Len(ret.mask) = 4
                 /\ \A j \in 0..31 :
                      AddrBit(ret.mask, j) = (IF j >= 32 - IntegerOf(rest) THEN 1 ELSE 0)
            /\ ~valid =>
                 /\ ret.mask = Nil
                 /\ Len(ret.err) = 1
                 /\ ret.err[1].format = "invalid CIDR notation: %s"

C8_Witness ==
    /\ ParseReturned
    /\ maskStr = <<"/", "+", "1", "9">>
    /\ ret.err = Nil
    /\ ret.mask = <<255, 255, 224, 0>>

\* C9: isValidSubnetMask(m) is true exactly when m, read as a 32-bit
\* big-endian integer, is 0xFFFFFFFF << (32 - k) truncated to 32 bits for some
\* k in 0..32; and parseSubnetMask accepts a dotted-decimal mask of that form
\* and rejects every other one with the non-contiguous-mask error.
C9_ContiguousMask ==
    /\ (pc = "returned" /\ fn = "isValidSubnetMask") =>
          (ret <=> IsPrefixMaskValue(maskArg))
    /\ (ParseReturned /\ IsDottedQuad(TrimSpace(maskStr))) =>
          IF IsPrefixMaskValue(QuadOf(TrimSpace(maskStr)))
          THEN ret.err = Nil /\ ret.mask = QuadOf(TrimSpace(maskStr))
          ELSE /\ ret.mask = Nil
               /\ Len(ret.err) = 1
               /\ ret.err[1].format = NonContiguousFormat

\* isValidSubnetMask accepts 0.0.0.0, whose shift count is 32
C9_Witness ==
    /\ pc = "returned"
    /\ fn = "isValidSubnetMask"
    /\ maskArg = <<0, 0, 0, 0>>
    /\ ret = TRUE

\* C10: for every k in 0..32, parseSubnetMask("/k") and parseSubnetMask of the
\* dotted-decimal text of the k-bit prefix mask both succeed and return the
\* same four bytes, those of the k-bit prefix mask.
C10_NotationsAgree ==
    \A k \in 0..32 :
        (ParseReturned /\ NamesPrefix(maskStr, k)) =>
            /\ ret.err = Nil
            /\ ret.mask = PrefixMask(k)

C10_Witness ==
    /\ ParseReturned
    /\ maskStr = Dotted(<<255, 255, 255, 0>>)
    /\ ret.err = Nil
    /\ ret.mask = <<255, 255, 255, 0>>

\* four segments separated by dots, each a run of digits naming a value in
\* 0..255 (the reading that asks least of the text: leading zeros allowed)
IsFourSegments(s) ==
    LET f == SplitDots(s, <<>>, <<>>)
    IN  /\ Len(f) = 4
        /\ \A i \in 1..4 :
             Len(f[i]) >= 1 /\ Len(f[i]) <= 9 /\ AllDigits(f[i]) /\ DecimalValue(f[i]) <= 255

CalcFailedWith(format) ==
    /\ CalcReturned
    /\ ret.result = Nil
    /\ Len(ret.err) = 1
    /\ ret.err[1].format = format

\* C11: calculateSubnet fails with the invalid-IP-address error for every
\* address string that is not a dotted-decimal IPv4 literal of exactly four
\* segments each in 0..255, the IPv6 and IPv4-mapped IPv6 forms included.
\* Either of the two messages calculateSubnet has for an address counts here
\* as that error.
C11_OnlyDottedQuadAddresses ==
    (CalcReturned /\ ~IsFourSegments(ipStr)) =>
        \/ CalcFailedWith("invalid IP address: %s")
        \/ CalcFailedWith("not a valid IPv4 address: %s")

ParseFailedWith(format) ==
    /\ ParseReturned
    /\ ret.mask = Nil
    /\ Len(ret.err) = 1
    /\ ret.err[1].format = format

\* C12: for a mask string that does not start with "/", parseSubnetMask fails
\* with the invalid-mask-format error whenever the string is not four
\* dotted-decimal octets each in 0..255, so that the contiguity check is made
\* only on strings of that form.  Either of the two messages parseSubnetMask
\* has for a string that is no IPv4 mask counts here as that error.
C12_OnlyDottedQuadMasks ==
    (/\ ParseReturned
     /\ ~HasPrefix(TrimSpace(maskStr), "/")
     /\ ~IsFourSegments(TrimSpace(maskStr))) =>
        \/ ParseFailedWith("invalid subnet mask format: %s")
        \/ ParseFailedWith("not a valid IPv4 mask: %s")

\* s occurs in t as a run of consecutive characters
Contains(t, s) ==
    \E i \in 0..(Len(t) - Len(s)) : SubSeq(t, i + 1, i + Len(s)) = s

AddressFormats == {"invalid IP address: %s", "not a valid IPv4 address: %s"}

\* a call returned a result and no error, or no result and an error
ResultXorError ==
    \/ Len(ret.result) = 1 /\ ret.err = Nil
    \/ ret.result = Nil /\ Len(ret.err) = 1

\* C13 as stated: every call calculateSubnet(ip, mask) returns a result and a
\* nil error or a nil result and an error, and the message of the error
\* contains the input string it is about, as it was passed.
C13_ErrorNamesInputAsPassed ==
    CalcReturned =>
        /\ ResultXorError
        /\ ret.err # Nil =>
              Contains(ErrorText(ret.err[1]),
                       IF ret.err[1].format \in AddressFormats THEN ipStr ELSE maskStr)

\* C13: every call calculateSubnet(ip, mask) returns a result and a nil error
\* or a nil result and an error, never both and never neither; the message of
\* an error about the address contains the address string, and the message
\* of an error about the mask contains the mask string without the white
\* space around it.
C13_ErrorNamesTrimmedInput ==
    CalcReturned =>
        /\ ResultXorError
        /\ ret.err # Nil =>
              Contains(ErrorText(ret.err[1]),
                       IF ret.err[1].format \in AddressFormats THEN ipStr
                       ELSE TrimSpace(maskStr))

C13_Witness ==
    /\ CalcReturned
    /\ ipStr = Dotted(<<0, 0, 0, 0>>)
    /\ maskStr = <<"\t", "/", "3", "3">>
    /\ ret.result = Nil
    /\ Len(ret.err) = 1
    /\ ErrorText(ret.err[1]) = <<"i", "n", "v", "a", "l", "i", "d", " ", "C", "I", "D", "R", " ", "n", "o", "t", "a", "t", "i", "o", "n", ":", " ", "/", "3", "3">>

\* C14: for every pair of input strings, the empty string and "/" included,
\* calculateSubnet and parseSubnetMask return a result or an error: no slice
\* bound (mask[1:]) and no index (mask[0] to mask[3], networkAddr[i]) is out
\* of range, so no call ends in a panic.
C14_NoPanic ==
    (CalcReturned \/ ParseReturned) => ret # Panic

\* mask[1:] taken of the one-character string "/"
C14_Witness ==
    /\ ParseReturned
    /\ maskStr = <<"/">>
    /\ ParseFailedWith("invalid CIDR notation: %s")
    /\ ret.err[1].arg = <<"/">>

GoDone(g) == go[g].at = "done"

\* C15: two invocations of calculateSubnet with the same (ip, mask) strings
\* have the same outcome, the same result fields or the same error, whatever
\* calls were made between them or at the same time.
C15_SameInputsSameOutcome ==
    \A g \in Procs :
        (/\ GoDone(g)
         /\ hist # Nil
         /\ hist[1].ipStr = go[g].ipStr
         /\ hist[1].maskStr = go[g].maskStr) =>
            GoOutcome(g) = hist[1].outcome

\* an invocation is remembered, and two others with its inputs are done
C15_Witness ==
    /\ hist # Nil
    /\ hist[1].ipStr = Dotted(<<192, 168, 1, 10>>)
    /\ hist[1].maskStr = CidrText(24)
    /\ hist[1].outcome.err = Nil
    /\ hist[1].outcome.result[1].MaxHostAddress = Dotted(<<192, 168, 1, 254>>)
    /\ \A g \in {1, 2} :
         /\ GoDone(g)
         /\ go[g].ipStr = hist[1].ipStr
         /\ go[g].maskStr = hist[1].maskStr
         /\ GoOutcome(g) = hist[1].outcome

\* C18: each of the invocations of calculateSubnet that run at the same
\* time, interleaved in any way, returns the outcome the call returns when
\* it runs alone.
C18_ConcurrentAsAlone ==
    \A g \in Procs :
        GoDone(g) => GoOutcome(g) = calculateSubnet(go[g].ipStr, go[g].maskStr)

\* one invocation is done while another, of another subnet, has made its
\* broadcast buffer and not yet its result
C18_Witness ==
    /\ GoDone(1)
    /\ go[1].maskStr = CidrText(24)
    /\ GoOutcome(1).result[1].MinHostAddress = Dotted(<<192, 168, 1, 1>>)
    /\ go[2].at = "result"
    /\ go[2].ipStr = Dotted(<<172, 16, 0, 5>>)
    /\ heap[CellOf(2, "broadcastAddr")] = <<172, 16, 0, 5>>

IsBlank(w) == \A i \in 1..Len(w) : w[i] \in WhiteSpace

\* the strings s with t = w1 \o s \o w2 for runs of white space w1 and w2
Unpadded(t) ==
    UNION { {SubSeq(t, i, j) :
                j \in {k \in (i - 1)..Len(t) : IsBlank(SubSeq(t, k + 1, Len(t)))}} :
            i \in {h \in 1..(Len(t) + 1) : IsBlank(SubSeq(t, 1, h - 1))} }

\* "/", then white space, then digits
IsSlashSpaceDigits(t) ==
    /\ Len(t) >= 3
    /\ t[1] = "/"
    /\ \E i \in 2..(Len(t) - 1) :
         /\ IsBlank(SubSeq(t, 2, i))
         /\ AllDigits(SubSeq(t, i + 1, Len(t)))

\* C16: white space before and after a mask string does not change what
\* parseSubnetMask returns for it, the same mask bytes or an error of the
\* same kind, in CIDR and in dotted-decimal form; white space between the
\* "/" and the digits is kept and makes the CIDR invalid.
C16_PaddingIgnored ==
    ParseReturned =>
        \A t \in Unpadded(maskStr) :
            LET alone == parseSubnetMask(t)
            IN  /\ ret.mask = alone.mask
                /\ (ret.err = Nil) <=> (alone.err = Nil)
                /\ ret.err # Nil => ret.err[1].format = alone.err[1].format
                /\ IsSlashSpaceDigits(t) => ParseFailedWith("invalid CIDR notation: %s")

C16_Witness ==
    /\ ParseReturned
    /\ maskStr = <<"\r", "\n", "/", "2", "4", " ", " ">>
    /\ <<"/", "2", "4">> \in Unpadded(maskStr)
    /\ ret.err = Nil
    /\ ret.mask = <<255, 255, 255, 0>>

\* C17: a mask string that starts with "/" once trimmed is read as CIDR only,
\* never as dotted decimal, so "/255.255.255.0" fails with the invalid-CIDR
\* error; a string that does not start with "/" is never read as CIDR, so
\* "24" fails with the invalid-mask-format error.
C17_NotationsDisjoint ==
    ParseReturned =>
        LET t == TrimSpace(maskStr)
        IN  IF HasPrefix(t, "/")
            THEN /\ ret.err # Nil => ParseFailedWith("invalid CIDR notation: %s")
                 /\ IsDottedQuad(Tail(t)) => ret.err # Nil
                 /\ ret.err = Nil =>
                       /\ IsDecimalInteger(Tail(t))
                       /\ ret.mask = PrefixMask(IntegerOf(Tail(t)))
            ELSE /\ ret.err # Nil =>
                       /\ Len(ret.err) = 1
                       /\ ret.err[1].format # "invalid CIDR notation: %s"
                 /\ IsDecimalInteger(t) => ParseFailedWith("invalid subnet mask format: %s")
                 /\ (ret.err = Nil /\ IsDottedQuad(t)) => ret.mask = QuadOf(t)

C17_Witness ==
    /\ ParseReturned
    /\ maskStr = <<"/">> \o Dotted(<<255, 255, 255, 0>>)
    /\ ParseFailedWith("invalid CIDR notation: %s")
    /\ ret.err[1].arg = maskStr

HttpResponded == http.at = "responded"

\* a POST whose ip and mask form values are both non-empty once trimmed
PostWithBoth ==
    /\ HttpResponded
    /\ http.method = "POST"
    /\ ~IsBlank(http.ipForm)
    /\ ~IsBlank(http.maskForm)

\* the text without the white space at its ends
Stripped(t) == CHOOSE u \in Unpadded(t) : \A v \in Unpadded(t) : Len(u) <= Len(v)

FiveFields(r) ==
    <<r.NetworkAddress, r.BroadcastAddress, r.MinHostAddress, r.MaxHostAddress,
      r.UsableHosts>>

\* the record shows the error of the core and no result
ShowsError(r, core) ==
    /\ core.err # Nil
    /\ r.Error = ErrorText(core.err[1])
    /\ FiveFields(r) = <<<<>>, <<>>, <<>>, <<>>, <<>>>>

\* the record shows the result of the core and no error
ShowsResult(r, core) ==
    /\ core.err = Nil
    /\ r.Error = <<>>
    /\ FiveFields(r) = FiveFields(core.result[1])

\* what C19 says of the response to a POST with both values
RendersCore ==
    /\ http.resp # Panic
    /\ http.resp.status = 200
    /\ Len(http.resp.core) = 1
    /\ http.resp.core[1].ip = Stripped(http.ipForm)
    /\ http.resp.core[1].mask = Stripped(http.maskForm)
    /\ LET out == calculateSubnet(Stripped(http.ipForm), Stripped(http.maskForm))
       IN  http.resp.core[1].result = out.result /\ http.resp.core[1].err = out.err
    /\ Len(http.resp.rendered) = 1
    /\ LET r == http.resp.rendered[1]
           core == http.resp.core[1]
       IN  /\ r.IPAddress = Stripped(http.ipForm)
           /\ r.SubnetMask = Stripped(http.maskForm)
           /\ ShowsError(r, core) \/ ShowsResult(r, core)
           /\ ~(ShowsError(r, core) /\ ShowsResult(r, core))

MainRan == proc.at \in {"listen", "serving", "exited"}

\* the port text C20 names: "8080" when the variable is unset or empty
ChosenPort ==
    IF proc.env = Nil \/ proc.env[1] = <<>> THEN <<"8", "0", "8", "0">> ELSE proc.env[1]

\* C20: main uses the port "8080" when GO_SUBNET_CALCULATOR_PORT is unset or
\* empty and the value of the variable otherwise; when that text is no
\* integer the process exits with "Invalid port number" without having
\* called ListenAndServe, and otherwise ListenAndServe is called with
\* ":" followed by the port.
C20_PortFromEnvironment ==
    MainRan =>
        /\ proc.port = ChosenPort
        /\ IF IsDecimalInteger(ChosenPort)
           THEN /\ proc.address = Ref(<<":">> \o ChosenPort)
                /\ proc.fatal # Nil => proc.fatal[1].format # "Invalid port number: %s"
           ELSE /\ proc.at = "exited"
                /\ proc.address = Nil
                /\ Len(proc.fatal) = 1
                /\ proc.fatal[1].format = "Invalid port number: %s"
                /\ proc.fatal[1].arg = ChosenPort

C20_Witness ==
    /\ proc.at = "exited"
    /\ proc.env = Ref(<<"8", "0", "a", "b", "c">>)
    /\ proc.address = Nil
    /\ proc.fatal = Ref([format |-> "Invalid port number: %s",
                         arg |-> <<"8", "0", "a", "b", "c">>])

\* the mask string of the call names a prefix length in 0..30 and the call
\* succeeded
NormalSubnet ==
    /\ CalcSucceeded
    /\ HasPrefixLength(Unmap(TrimSpace(maskStr)))
    /\ PrefixLengthOf(Unmap(TrimSpace(maskStr))) <= 30

\* octet j of a takes the carry (or the borrow) when every octet after it is v
AllAfter(a, j, v) == \A i \in (j + 1)..4 : a[i] = v

\* C21: the + 1 loop turns every trailing octet of 255 into 0 and adds 1 to
\* the octet before them, the - 1 loop turns every trailing octet of 0 into
\* 255 and takes 1 from the octet before them, so that the buffer read as a
\* 32-bit number is one more (one less) modulo 2^32; and whenever
\* calculateSubnet succeeds with a prefix length in 0..30, MinHostAddress is
\* above NetworkAddress and MaxHostAddress below BroadcastAddress: neither
\* loop has wrapped.
C21_CarryAndBorrow ==
    /\ (loop.at = "done" /\ loop.op = "increment") =>
          /\ \A j \in 1..4 :
                loop.to[j] = IF AllAfter(loop.from, j, 255)
                             THEN (loop.from[j] + 1) % 256 ELSE loop.from[j]
          /\ Num32(loop.to) = IF Num32(loop.from) = <<65535, 65535>> THEN <<0, 0>>
                               ELSE Succ32(Num32(loop.from))
    /\ (loop.at = "done" /\ loop.op = "decrement") =>
          /\ \A j \in 1..4 :
                loop.to[j] = IF AllAfter(loop.from, j, 0)
                             THEN (loop.from[j] + 255) % 256 ELSE loop.from[j]
          /\ Num32(loop.from) = IF Num32(loop.to) = <<65535, 65535>> THEN <<0, 0>>
                                 ELSE Succ32(Num32(loop.to))
    /\ NormalSubnet =>
          LET r == ret.result[1]
          IN  /\ IsDottedQuad(r.MinHostAddress)
              /\ IsDottedQuad(r.MaxHostAddress)
              /\ Less32(Num32(QuadOf(r.NetworkAddress)), Num32(QuadOf(r.MinHostAddress)))
              /\ Less32(Num32(QuadOf(r.MaxHostAddress)), Num32(QuadOf(r.BroadcastAddress)))

C21_Witness ==
    /\ loop.at = "done"
    /\ loop.op = "decrement"
    /\ loop.from = <<170, 1, 0, 0>>
    /\ loop.to = <<170, 0, 255, 255>>

\* the stepped invocation has taken the switch on prefixLen
RunSwitched == run.at \in {"case32", "case31", "minHost"}

\* the number of one-bits four octets start with, read from the highest bit
LeadingOneBits(q) ==
    CHOOSE k \in 0..32 :
        /\ \A j \in (32 - k)..31 : AddrBit(q, j) = 1
        /\ k < 32 => AddrBit(q, 31 - k) = 0

\* C22: when calculateSubnet takes the switch, prefixLen is the number of
\* leading one-bits of the parsed mask, it is n when the mask string is "/n"
\* or the dotted-decimal text of the n-bit prefix mask, for n in 0..32, and
\* the branch is case 32 exactly for the mask 255.255.255.255 and case 31
\* exactly for 255.255.255.254.
C22_BranchByLeadingOnes ==
    RunSwitched =>
        /\ Len(run.mask) = 4
        /\ run.prefixLen = LeadingOneBits(run.mask)
        /\ \A n \in 0..32 :
              NamesPrefix(TrimSpace(run.maskStr), n) => run.prefixLen = n
        /\ run.at = "case32" <=> run.mask = <<255, 255, 255, 255>>
        /\ run.at = "case31" <=> run.mask = <<255, 255, 255, 254>>

C22_Witness ==
    /\ run.at = "case31"
    /\ run.maskStr = Dotted(<<255, 255, 255, 254>>)
    /\ run.mask = <<255, 255, 255, 254>>
    /\ run.prefixLen = 31
    /\ run.scans = 32

\* the invocation is under way: called, and not yet returned to its caller
RunUnderWay == run.at \notin {"idle", "done"}

\* C23: in every invocation of calculateSubnet the body of the leading-ones
\* scan runs at most 32 times and the bodies of the broadcast, + 1 and - 1
\* loops at most 4 times each, a statement can always run while the
\* invocation is under way (nothing blocks or waits), and every invocation
\* that is called returns.
C23_Terminates ==
    /\ [](/\ run.scans <= 32
          /\ run.broadcasts <= 4
          /\ run.increments <= 4
          /\ run.decrements <= 4
          /\ RunUnderWay => ENABLED RunStep)
    /\ (run.at = "parseIP") ~> (run.at = "done")

C23_Witness ==
    /\ run.at = "done"
    /\ run.err = Nil
    /\ run.maskStr = Dotted(<<255, 255, 255, 252>>)
    /\ run.scans = 31
    /\ run.broadcasts = 4
    /\ run.increments = 1
    /\ run.decrements = 1

\* the address string names four octets: a dotted-decimal literal, or one in
\* the IPv4-mapped form that the address checks let through
NamesFourOctets(t) == IsDottedQuad(Unmap(t))

\* the stepped invocation has returned an error made by parseSubnetMask
RunMaskError ==
    run.at = "done" /\ run.err # Nil /\ run.err[1].format \notin AddressFormats

FieldsOf(out) ==
    <<out.result[1].NetworkAddress, out.result[1].BroadcastAddress,
      out.result[1].MinHostAddress, out.result[1].MaxHostAddress,
      out.result[1].UsableHosts>>

\* C25: for every dotted-decimal IPv4 address and every k in 0..32, the call
\* with "/k" and the call with the dotted-decimal text of the k-bit prefix
\* mask both succeed and return the same five result fields.
C25_NotationsGiveSameResult ==
    (pc = "returned" /\ fn = "bothNotations" /\ IsDottedQuad(ipStr)) =>
        /\ ret.err = Nil /\ Len(ret.result) = 1
        /\ hist[1].outcome.err = Nil /\ Len(hist[1].outcome.result) = 1
        /\ FieldsOf(ret) = FieldsOf(hist[1].outcome)

C25_Witness ==
    /\ pc = "returned"
    /\ fn = "bothNotations"
    /\ ipStr = Dotted(<<170, 0, 255, 170>>)
    /\ maskStr = CidrText(20)
    /\ hist[1].maskStr = Dotted(<<255, 255, 240, 0>>)
    /\ ret.result[1].NetworkAddress = Dotted(<<170, 0, 240, 0>>)
    /\ hist[1].outcome.result[1].BroadcastAddress = Dotted(<<170, 0, 255, 255>>)
    /\ hist[1].outcome.result[1].UsableHosts = <<"4", "0", "9", "4">>

\* C26: whenever calculateSubnet succeeds with a prefix length in 0..30,
\* NetworkAddress < MinHostAddress <= MaxHostAddress < BroadcastAddress as
\* 32-bit numbers, and the number of addresses from MinHostAddress to
\* MaxHostAddress inclusive is the number in UsableHosts.
C26_HostRangeOrdered ==
    NormalSubnet =>
        LET r        == ret.result[1]
            network  == Num32(QuadOf(r.NetworkAddress))
            minHost  == Num32(QuadOf(r.MinHostAddress))
            maxHost  == Num32(QuadOf(r.MaxHostAddress))
            broadcast == Num32(QuadOf(r.BroadcastAddress))
        IN  /\ IsDottedQuad(r.NetworkAddress) /\ IsDottedQuad(r.MinHostAddress)
            /\ IsDottedQuad(r.MaxHostAddress) /\ IsDottedQuad(r.BroadcastAddress)
            /\ Less32(network, minHost)
            /\ Leq32(minHost, maxHost)
            /\ Less32(maxHost, broadcast)
            /\ IsPlainDecimal(r.UsableHosts)
            /\ NumberOf(r.UsableHosts) = Succ32(Sub32(maxHost, minHost))

\* a /30 holds two hosts, a /0 all addresses but the first and the last
C26_Witness ==
    /\ NormalSubnet
    /\ ipStr = Dotted(<<170, 0, 255, 170>>)
    /\ maskStr = CidrText(30)
    /\ ret.result[1].NetworkAddress = Dotted(<<170, 0, 255, 168>>)
    /\ ret.result[1].MinHostAddress = Dotted(<<170, 0, 255, 169>>)
    /\ ret.result[1].MaxHostAddress = Dotted(<<170, 0, 255, 170>>)
    /\ ret.result[1].BroadcastAddress = Dotted(<<170, 0, 255, 171>>)
    /\ ret.result[1].UsableHosts = <<"2">>

\* C27: in an invocation that reaches the default case (prefix length 0..30)
\* the body of each host-address loop runs once and takes the branch that
\* ends the loop: the last octet of the network address is at most 252 and
\* that of the broadcast address at least 3, so the min-host buffer is the
\* network address with 1 added to its last octet only, the max-host buffer
\* the broadcast address with 1 taken from its last octet only, and the
\* returned texts name these.
C27_NoCarryNoBorrow ==
    /\ run.at \in {"minHost", "increment", "maxHost", "decrement", "hostFields"} =>
          /\ run.prefixLen \in 0..30
          /\ run.networkAddr[4] <= 252
          /\ run.broadcastAddr[4] >= 3
    /\ run.at = "increment" => run.i = 3 /\ run.minHostAddr[4] < 255
    /\ run.at = "decrement" => run.i = 3 /\ run.maxHostAddr[4] > 0
    /\ run.at \in {"maxHost", "decrement", "hostFields"} =>
          /\ run.increments = 1
          /\ run.minHostAddr = [run.networkAddr EXCEPT ![4] = @ + 1]
    /\ run.at = "hostFields" =>
          /\ run.decrements = 1
          /\ run.maxHostAddr = [run.broadcastAddr EXCEPT ![4] = @ - 1]
    /\ (run.at = "done" /\ run.err = Nil /\ run.prefixLen <= 30) =>
          LET r == run.result[1]
          IN  /\ run.increments = 1 /\ run.decrements = 1
              /\ QuadOf(r.MinHostAddress) = [QuadOf(r.NetworkAddress) EXCEPT ![4] = @ + 1]
              /\ QuadOf(r.MaxHostAddress) = [QuadOf(r.BroadcastAddress) EXCEPT ![4] = @ - 1]

\* the extreme last octets: 255.255.255.255/30 has network 255.255.255.252
C27_Witness ==
    /\ run.at = "done"
    /\ run.err = Nil
    /\ run.ipStr = Dotted(<<255, 255, 255, 255>>)
    /\ run.maskStr = CidrText(30)
    /\ run.networkAddr = <<255, 255, 255, 252>>
    /\ run.minHostAddr = <<255, 255, 255, 253>>
    /\ run.maxHostAddr = <<255, 255, 255, 254>>
    /\ run.increments = 1
    /\ run.decrements = 1
    /\ run.result[1].MinHostAddress = Dotted(<<255, 255, 255, 253>>)

\* the two addresses agree in their first k bits
SameSubnet(q1, q2, k) == \A j \in (32 - k)..31 : AddrBit(q1, j) = AddrBit(q2, j)

\* the mask of the two calls names a prefix length in 0..31
MaskUpTo31 ==
    /\ HasPrefixLength(Unmap(TrimSpace(maskStr)))
    /\ PrefixLengthOf(Unmap(TrimSpace(maskStr))) <= 31

\* C28: for a mask of prefix length k in 0..31 and two addresses that agree
\* in their first k bits, the two calls of calculateSubnet succeed with the
\* same result; and the call on the NetworkAddress a successful call
\* returned, with the same mask, returns the same result again.
C28_SubnetOnly ==
    /\ (pc = "returned" /\ fn = "sameMask" /\ MaskUpTo31
          /\ NamesFourOctets(ipStr) /\ NamesFourOctets(hist[1].ipStr)
          /\ SameSubnet(QuadOf(Unmap(ipStr)), QuadOf(Unmap(hist[1].ipStr)),
                        PrefixLengthOf(Unmap(TrimSpace(maskStr))))) =>
            /\ ret.err = Nil /\ Len(ret.result) = 1
            /\ hist[1].outcome = ret
    /\ (pc = "returned" /\ fn = "onNetwork" /\ MaskUpTo31) =>
            /\ hist[1].ipStr = ret.result[1].NetworkAddress
            /\ hist[1].outcome = ret

\* 192.168.1.10 and 192.168.200.10 lie in the same /16
C28_Witness ==
    /\ pc = "returned"
    /\ fn = "sameMask"
    /\ ipStr = Dotted(<<192, 168, 1, 10>>)
    /\ hist[1].ipStr = Dotted(<<192, 168, 200, 10>>)
    /\ maskStr = CidrText(16)
    /\ ret.result[1].NetworkAddress = Dotted(<<192, 168, 0, 0>>)
    /\ hist[1].outcome.result[1].MaxHostAddress = Dotted(<<192, 168, 255, 254>>)

\* a GET request, or a POST one of whose form values is empty once trimmed
NothingToCalculate ==
    /\ HttpResponded
    /\ http.method = "GET" \/ IsBlank(http.ipForm) \/ IsBlank(http.maskForm)

\* a record with no error and no result is rendered, with status 200
RendersNoResult ==
    /\ http.resp.status = 200
    /\ Len(http.resp.rendered) = 1
    /\ http.resp.rendered[1].Error = <<>>
    /\ FiveFields(http.resp.rendered[1]) = <<<<>>, <<>>, <<>>, <<>>, <<>>>>

====
